---- MODULE Spec2Model ----
(***************************************************************************)
(* Model of the AWS cost canceler: the cancellation ledger                 *)
(* (canceled_services.json) as written by AWSServiceCancelerBoto3 and read *)
(* by AWSMasterController.generate_html_report, the threshold-driven       *)
(* cancellation run of AWSMasterController.check_and_cancel_services, the  *)
(* ServiceCancellationAPI dispatcher, the status the cost adapter assigns   *)
(* to service entries, the threshold analysis of CostAnalysisService, the  *)
(* billing-source resolver and the multi-region scan of AWSResourceScanner *)
(* and the exit codes of the two command line entry points, the cost       *)
(* queries of the adapter and the monitor, the consolidation of line items *)
(* in the report, the service paths cache, the cost report service with    *)
(* the HTML report adapter, the wait-for-deletion loops of the canceler    *)
(* and the detection of invisible resources.                               *)
(*                                                                         *)
(* Costs are amounts in cents; a date is a day number that strftime turns   *)
(* into a date string.                                                     *)
(***************************************************************************)
EXTENDS Integers, Sequences, FiniteSets, TLC

\* ------------------------------------------------------------------ bounds
MaxItems == 2          \* line items in one cost analysis
MaxDay == 2            \* days the clock can reach
NumRegions == 2        \* regions returned by describe_regions

\* ------------------------------------------------------- input enumeration
OPENSEARCH == "Amazon OpenSearch Service"
SKILL_BUILDER == "AWS Skill Builder Individual"
AWS_LAMBDA == "AWS Lambda"

ServiceNames == {OPENSEARCH, SKILL_BUILDER, AWS_LAMBDA}
Costs == {10, 30}
Thresholds == {10}
Regions == 1..NumRegions

LineItems == [service : ServiceNames, cost : Costs]

RECURSIVE SeqsUpTo(_, _)
SeqsUpTo(S, n) ==
    IF n = 0 THEN {<< >>}
    ELSE LET shorter == SeqsUpTo(S, n - 1)
         IN  shorter \cup {Append(q, x) : q \in {p \in shorter : Len(p) = n - 1}, x \in S}

ServiceCostLists == SeqsUpTo(LineItems, MaxItems)

\* ------------------------------------------------------------ dictionaries
EmptyDict == << >>

DictSet(d, k, v) == [x \in (DOMAIN d) \cup {k} |-> IF x = k THEN v ELSE d[x]]

\* json.dump of a dict of records: one member per key
json_dump(d) == {<<k, d[k]>> : k \in DOMAIN d}

\* json.load of a well-formed object: the dict of its members
json_load(members) ==
    [k \in {m[1] : m \in members} |-> (CHOOSE m \in members : m[1] = k)[2]]

\* datetime.now().strftime('%Y-%m-%d')
DateStrings == <<"2025-04-20", "2025-04-21", "2025-04-22", "2025-04-23">>
strftime(day) == DateStrings[day]

\* ------------------------------------------------------------------- state
VARIABLES
    today,               \* the clock: current day number
    ledgerFile,          \* canceled_services.json: [state, members]
    pc,                  \* position of the controller
    cost_threshold,      \* AWSMasterController.cost_threshold
    service_costs,       \* cost_data['service_costs'] of the latest analysis
    services_exceeding,  \* check_and_cancel_services: services_exceeding
    canceled_services,   \* AWSServiceCancelerBoto3.canceled_services
    idx,                 \* loop position in the record loop / handler table
    actionRan,           \* services whose cancel_func was invoked in this run
    deleteFailed,        \* services whose cancel_func raised or had a failed delete
    lastRecord,          \* arguments and outcome of the latest record_service_cancellation
    loadedFrom,          \* state of the ledger file at the latest load
    service_status,      \* generate_html_report: service_status handed to the generator
    report_rows,         \* rows of the rendered "Top Services by Cost" table
    api_input,           \* arguments of the latest cancel_service call
    api_result,          \* what that call returned
    api_calls,           \* AWS operations that call issued
    api_delete_error,    \* error code a delete/terminate call of it raised, if any
    adapter_called,      \* whether a get_service_costs call has returned
    adapter_services,    \* list returned by AWSCostAdapter.get_service_costs
    ce_response,         \* what Cost Explorer answers to the adapter's queries
    analyze_results,     \* analyze_costs calls made against that answer, by entry point and threshold
    resolver_input,      \* what Cost Explorer and CloudTrail answer to the billing-source resolver
    resolver_result,     \* what find_exact_opensearch_billing_source returned
    scan_pc,             \* scan_for_opensearch_resources: position of the calling thread
    region_answers,      \* what the OpenSearch API of each region answers during the scan
    worker_state,        \* per region: position of its _scan_region_for_opensearch worker
    worker_todo,         \* per region: listed domain names not described yet
    domain_details,      \* per region: the worker's own domain_details list
    consumed,            \* regions whose future the as_completed loop has handled
    all_domains,         \* the merged list of the calling thread
    scan_result,         \* what scan_for_opensearch_resources returned
    cli_input,           \* entry point, arguments and environment of the latest CLI run
    cli_result,          \* how that run ended
    query_input,         \* the cost query called last and what Cost Explorer answers to it
    query_result,        \* what that query returned
    consolidation_pc,    \* idle, consolidated (once) or again (twice)
    cost_data,           \* the flattened line items of run_cost_analysis
    service_cost_map,    \* the consolidated costs built from them
    service_cost_map_again, \* the consolidation of that consolidated list
    cache_pc,            \* none, loaded or updated: the controller object's life
    cache_file,          \* service_paths_cache.json: [state, age, content]
    cache_seen,          \* the file as it was when __init__ loaded it
    service_paths,       \* self.service_paths
    report_days_back,    \* days_back of the running generate_cost_report, 0 when none
    report_handed,       \* report_data after the add_* calls of the service
    report_rendered,     \* the data the template was rendered with
    wait_pc,             \* idle, delete (next resource), poll or sleep (inside while True)
    wait_found,          \* the resources the run found
    wait_index,          \* the resource the run is at
    wait_polls,          \* status polls made for it so far
    wait_status,         \* the status AWS reports for each resource
    detect_called,       \* a call of detect_invisible_resources is being answered
    detect_input,        \* what the investigation's queries and scans answered
    detect_result        \* what the call returned or raised

ctlVars == <<pc, cost_threshold, service_costs, services_exceeding, canceled_services,
             idx, actionRan, deleteFailed, lastRecord, loadedFrom>>
reportVars == <<service_status, report_rows>>
apiVars == <<api_input, api_result, api_calls, api_delete_error>>
adapterVars == <<adapter_called, adapter_services>>
analysisVars == <<ce_response, analyze_results>>
resolverVars == <<resolver_input, resolver_result>>
scanVars == <<scan_pc, region_answers, worker_state, worker_todo, domain_details, consumed,
              all_domains, scan_result>>
cliVars == <<cli_input, cli_result>>
libVars == <<analysisVars, resolverVars, scanVars, cliVars>>
queryVars == <<query_input, query_result>>
consolidationVars == <<consolidation_pc, cost_data, service_cost_map, service_cost_map_again>>
cacheVars == <<cache_pc, cache_file, cache_seen, service_paths>>
reportGenVars == <<report_days_back, report_handed, report_rendered>>
waitVars == <<wait_pc, wait_found, wait_index, wait_polls, wait_status>>
detectVars == <<detect_called, detect_input, detect_result>>
auxVars == <<queryVars, consolidationVars, cacheVars, reportGenVars, waitVars, detectVars>>

vars == <<today, ledgerFile, ctlVars, reportVars, apiVars, adapterVars, libVars, auxVars>>

\* ------------------------------------------------------------- ledger file
FileMissing == [state |-> "missing", members |-> {}]
FileCorrupt == [state |-> "corrupt", members |-> {}]
FileOk(d) == [state |-> "ok", members |-> json_dump(d)]

CanceledRecord(day, cost) ==
    [status |-> "Canceled", canceled_on |-> strftime(day), cost_at_cancellation |-> cost]

\* a load that lets the exception of open/json.load escape
load_canceled_services_propagates(file) ==
    IF file.state = "missing" THEN [raised |-> FALSE, value |-> EmptyDict]
    ELSE IF file.state = "corrupt" THEN [raised |-> TRUE, value |-> EmptyDict]
    ELSE [raised |-> FALSE, value |-> json_load(file.members)]

\* load_canceled_services: {} when the file is absent, {} when open/json.load
\* raises, else the parsed object.  raised tells whether the call propagated
\* an exception.
load_canceled_services(file) ==
    IF file.state = "missing" THEN [raised |-> FALSE, value |-> EmptyDict]
    ELSE IF file.state = "corrupt" THEN [raised |-> FALSE, value |-> EmptyDict]
    ELSE [raised |-> FALSE, value |-> json_load(file.members)]

\* save_canceled_services: whole-file rewrite; a failing open/write is caught
\* and leaves the file as it was.
save_canceled_services(file, d, writeOk) ==
    IF writeOk THEN FileOk(d) ELSE file

\* a record that replaces the dict instead of updating one key
RecordIntoFresh(d, service_name, cost, day) ==
    DictSet(EmptyDict, service_name, CanceledRecord(day, cost))

\* a record that drops the cost it was given
RecordIntoZeroCost(d, service_name, cost, day) ==
    DictSet(d, service_name, CanceledRecord(day, 0))

\* record_service_cancellation: the dict after the assignment
RecordInto(d, service_name, cost, day) ==
    DictSet(d, service_name, CanceledRecord(day, cost))

NoRecord == [called |-> FALSE]
RecordCall(service_name, cost, day, writeOk) ==
    [called |-> TRUE, service_name |-> service_name, cost |-> cost,
     day |-> day, saved |-> writeOk]

\* --------------------------------------------------------------- handlers
RegionOutcomes == {"access_error", "no_collections", "deleted", "delete_failed"}

\* cancel_opensearch_serverless: every exception is caught inside the region
\* loop, so the call never raises; a delete is issued in every region that
\* lists a collection.
cancel_opensearch_serverless(outcome) ==
    [raised |-> FALSE,
     deleteIssued |-> \E r \in Regions : outcome[r] \in {"deleted", "delete_failed"},
     failed |-> \E r \in Regions : outcome[r] = "delete_failed"]

MarketplaceOutcomes == {"access_error", "list_error", "no_entities", "entities"}

\* cancel_marketplace_subscriptions: lists the entities and prints the
\* console URL; it issues no delete and never raises.
cancel_marketplace_subscriptions(outcome) ==
    [raised |-> FALSE, deleteIssued |-> FALSE, failed |-> FALSE]

\* cancel_targeted_services: services_to_cancel in dict order
services_to_cancel == <<OPENSEARCH, SKILL_BUILDER>>

\* ------------------------------------------------------------- sorting
RECURSIVE InsertDesc(_, _)
InsertDesc(sorted, x) ==
    IF sorted = << >> THEN <<x>>
    ELSE IF Head(sorted).cost >= x.cost THEN <<Head(sorted)>> \o InsertDesc(Tail(sorted), x)
    ELSE <<x>> \o sorted

\* sorted(..., key=cost, reverse=True): stable, highest cost first
RECURSIVE SortByCostDesc(_)
SortByCostDesc(s) ==
    IF s = << >> THEN << >>
    ELSE InsertDesc(SortByCostDesc(SubSeq(s, 1, Len(s) - 1)), s[Len(s)])

\* [s for s in sorted_services if s['cost'] > self.cost_threshold]
Exceeds(cost, threshold) == cost > threshold

FilterExceeding(s, threshold) == SelectSeq(s, LAMBDA item : Exceeds(item.cost, threshold))

\* ------------------------------------------------------ report generation
TAX == "Tax"
COST_EXPLORER == "AWS Cost Explorer"
REFUND == "Refund"
BEDROCK == "Amazon Bedrock"
CREDIT_REFUND == "Credit/Refund (AWS Skill Builder)"

\* run_cost_analysis: self.service_consolidation
ConsolidatedNames ==
    {"Claude 3.7 Sonnet", "Claude 3.7 Haiku", "Claude 3.7 Opus", "Claude 3 Sonnet",
     "Claude 3 Haiku", "Claude 3 Opus", "Anthropic Claude"}
service_consolidation == [n \in ConsolidatedNames |-> BEDROCK]

\* generate_html_report, lines 429-441: the display name of a line item
DisplayName(service_name, cost) ==
    IF service_name = TAX THEN "Tax (AWS Services)"
    ELSE IF service_name = COST_EXPLORER THEN "AWS Cost Explorer (Usage Analytics Service)"
    ELSE IF service_name = REFUND /\ cost < 0 THEN CREDIT_REFUND
    ELSE service_name

\* "Credit" in service_name or "Refund" in service_name, over the names used
IsCreditOrRefund(name) == name \in {REFUND, CREDIT_REFUND}

\* an insertion-ordered dict of costs: a sequence of [name, cost] with unique names
OrderedHas(m, k) == \E i \in 1..Len(m) : m[i].name = k
OrderedGet(m, k, default) ==
    IF OrderedHas(m, k) THEN m[CHOOSE i \in 1..Len(m) : m[i].name = k].cost ELSE default
\* a dict that lists a new key first
OrderedPutFirst(m, k, v) ==
    IF OrderedHas(m, k)
    THEN [i \in 1..Len(m) |-> IF m[i].name = k THEN [name |-> k, cost |-> v] ELSE m[i]]
    ELSE <<[name |-> k, cost |-> v]>> \o m

OrderedPut(m, k, v) ==
    IF OrderedHas(m, k)
    THEN [i \in 1..Len(m) |-> IF m[i].name = k THEN [name |-> k, cost |-> v] ELSE m[i]]
    ELSE Append(m, [name |-> k, cost |-> v])

\* generate_html_report, lines 423-452: service_cost_map after the loop over
\* the line items (credits and refunds go to credit_service_map instead)
RECURSIVE BuildServiceCostMap(_)
BuildServiceCostMap(items) ==
    IF items = << >> THEN << >>
    ELSE LET m == BuildServiceCostMap(SubSeq(items, 1, Len(items) - 1))
             item == items[Len(items)]
             name == DisplayName(item.service, item.cost)
         IN  IF name \in DOMAIN service_consolidation
             THEN LET parent == service_consolidation[name]
                  IN  OrderedPut(m, parent, OrderedGet(m, parent, 0) + item.cost)
             ELSE IF IsCreditOrRefund(name) THEN m
             ELSE OrderedPut(m, name, item.cost)

\* generate_html_report, lines 455-460: service_relationships
BuildServiceRelationships(items) ==
    IF \E i \in 1..Len(items) : items[i].service = REFUND /\ items[i].cost < 0
    THEN [n \in {CREDIT_REFUND} |-> SKILL_BUILDER]
    ELSE EmptyDict

Abs(x) == IF x < 0 THEN 0 - x ELSE x

RECURSIVE InsertAbsDesc(_, _)
InsertAbsDesc(sorted, x) ==
    IF sorted = << >> THEN <<x>>
    ELSE IF Abs(Head(sorted).cost) >= Abs(x.cost)
         THEN <<Head(sorted)>> \o InsertAbsDesc(Tail(sorted), x)
    ELSE <<x>> \o sorted

RECURSIVE SortByAbsCostDesc(_)
SortByAbsCostDesc(s) ==
    IF s = << >> THEN << >>
    ELSE InsertAbsDesc(SortByAbsCostDesc(SubSeq(s, 1, Len(s) - 1)), s[Len(s)])

\* generate_html_report, lines 491-499: non-zero entries, largest |cost| first
ReportServiceCosts(items) ==
    SortByAbsCostDesc(SelectSeq(BuildServiceCostMap(items), LAMBDA e : Abs(e.cost) > 0))

\* generate_html_report, lines 561-569: service_status read from the ledger;
\* it stays {} when the file is absent or when open/json.load raises
LoadServiceStatus(file) ==
    IF file.state = "missing" THEN [raised |-> FALSE, value |-> EmptyDict]
    ELSE IF file.state = "corrupt" THEN [raised |-> FALSE, value |-> EmptyDict]
    ELSE [raised |-> FALSE, value |-> json_load(file.members)]

\* generate_html_report, lines 466-467: never filled in
service_status_override == EmptyDict

\* generate_html_report, lines 571-576
ApplyStatusOverrides(status, override) ==
    [k \in DOMAIN status |->
        IF k \in DOMAIN override
        THEN [f \in (DOMAIN status[k]) \cup {"status", "notes"} |->
                IF f = "status" THEN override[k].status
                ELSE IF f = "notes" THEN override[k].notes
                ELSE status[k][f]]
        ELSE status[k]]

\* the status cell of the services table in the HTML template (lines 1083-1110):
\* the badge, the date it shows, and "render_error" where the template reads
\* an attribute of an undefined value
TemplateStatus(name, status, relationships) ==
    IF relationships # EmptyDict /\ name \in DOMAIN relationships
    THEN LET related == relationships[name]
         IN  IF related \in DOMAIN status /\ status[related].status = "Canceled"
             THEN [badge |-> "Canceled", date |-> status[related].canceled_on]
             ELSE IF related \notin DOMAIN status THEN [badge |-> "render_error", date |-> ""]
             ELSE [badge |-> "Active", date |-> ""]
    ELSE IF name \in DOMAIN status
    THEN IF status[name].status = "Canceled"
         THEN [badge |-> "Canceled", date |-> status[name].canceled_on]
         ELSE [badge |-> "Active", date |-> ""]
    ELSE [badge |-> "Active", date |-> ""]

RenderRows(rows, status, relationships) ==
    [i \in 1..Len(rows) |->
        [name |-> rows[i].name, cost |-> rows[i].cost,
         status |-> TemplateStatus(rows[i].name, status, relationships)]]

\* ------------------------------------------------ ServiceCancellationAPI
NoId == "None"                 \* service_id omitted (None)
Absent == "<absent>"           \* a key the returned dict does not have
DefaultRegion == "us-east-1"

ResourceIds == {NoId, "res-1"}
ApiRegions == {DefaultRegion, "eu-west-1"}

\* outcomes of one AWS call: it returns, raises ClientError with a code, or
\* raises another exception (no credentials, endpoint unreachable)
ClientErrorCodes == {"ResourceNotFoundException", "AccessDeniedException"}
CallOutcomes == {"ok", "other_exception"} \cup ClientErrorCodes
Raise(o) == IF o = "ok" THEN "none" ELSE o

\* cancel_service: cancellation_functions
cancellation_functions ==
    [n \in {"Amazon OpenSearch Service", "OpenSearch Serverless", "Amazon Redshift",
            "AWS Lambda", "Amazon EC2", "Amazon RDS", "Amazon S3"} |->
        CASE n = "Amazon OpenSearch Service" -> "_cancel_opensearch"
          [] n = "OpenSearch Serverless" -> "_cancel_opensearch_serverless"
          [] n = "Amazon Redshift" -> "_cancel_redshift"
          [] n = "AWS Lambda" -> "_cancel_lambda"
          [] n = "Amazon EC2" -> "_cancel_ec2"
          [] n = "Amazon RDS" -> "_cancel_rds"
          [] n = "Amazon S3" -> "_cancel_s3"]

RegisteredNames == DOMAIN cancellation_functions
ApiServiceNames == RegisteredNames \cup {"Unsupported Service", SKILL_BUILDER}

\* cancellation_functions.get(service_name, self._default_cancellation)
cancellation_functions_get(service_name) ==
    IF service_name \in DOMAIN cancellation_functions
    THEN cancellation_functions[service_name]
    ELSE "_default_cancellation"

Details(action, resource, error) == [action |-> action, resource |-> resource, error |-> error]
NoDetails == Details(Absent, Absent, Absent)

\* a handler that issues its delete/terminate call whatever the id
DeleteAlways(resource_id, listOp, deleteOp, doneAction, o) ==
    [raise |-> Raise(o), details |-> Details(doneAction, resource_id, Absent),
     calls |-> {deleteOp},
     delete_error |-> IF o \in ClientErrorCodes THEN o ELSE "none"]

\* the shape shared by the handlers that list without an id and otherwise
\* issue one delete/terminate call
ListOrDelete(resource_id, listOp, deleteOp, doneAction, o) ==
    IF resource_id = NoId
    THEN [raise |-> Raise(o), details |-> Details("list_only", Absent, Absent),
          calls |-> {listOp}, delete_error |-> "none"]
    ELSE [raise |-> Raise(o), details |-> Details(doneAction, resource_id, Absent),
          calls |-> {deleteOp},
          delete_error |-> IF o \in ClientErrorCodes THEN o ELSE "none"]

_cancel_opensearch(domain_name, o) ==
    ListOrDelete(domain_name, "list_domain_names", "delete_domain", "deleted", o)

_cancel_opensearch_serverless(collection_id, o) ==
    ListOrDelete(collection_id, "list_collections", "delete_collection", "deleted", o)

_cancel_redshift(cluster_id, o) ==
    ListOrDelete(cluster_id, "describe_clusters", "delete_cluster", "deleted", o)

_cancel_lambda(function_name, o) ==
    ListOrDelete(function_name, "list_functions", "delete_function", "deleted", o)

_cancel_ec2(instance_id, o) ==
    ListOrDelete(instance_id, "describe_instances", "terminate_instances", "terminated", o)

_cancel_rds(db_instance_id, o) ==
    ListOrDelete(db_instance_id, "describe_db_instances", "delete_db_instance", "deleted", o)

\* _cancel_s3: list_objects_v2, delete_objects when the bucket has contents,
\* delete_bucket; a ClientError of any of them is caught and returned as
\* details with action "error"
_cancel_s3(bucket_name, o1, hasContents, o2, o3) ==
    IF bucket_name = NoId
    THEN [raise |-> Raise(o1), details |-> Details("list_only", Absent, Absent),
          calls |-> {"list_buckets"}, delete_error |-> "none"]
    ELSE IF o1 # "ok"
    THEN [raise |-> IF o1 \in ClientErrorCodes THEN "none" ELSE o1,
          details |-> Details("error", bucket_name, o1),
          calls |-> {"list_objects_v2"}, delete_error |-> "none"]
    ELSE IF hasContents /\ o2 # "ok"
    THEN [raise |-> IF o2 \in ClientErrorCodes THEN "none" ELSE o2,
          details |-> Details("error", bucket_name, o2),
          calls |-> {"list_objects_v2", "delete_objects"},
          delete_error |-> IF o2 \in ClientErrorCodes THEN o2 ELSE "none"]
    ELSE LET issued == {"list_objects_v2", "delete_bucket"}
                           \cup (IF hasContents THEN {"delete_objects"} ELSE {})
         IN  IF o3 # "ok"
             THEN [raise |-> IF o3 \in ClientErrorCodes THEN "none" ELSE o3,
                   details |-> Details("error", bucket_name, o3),
                   calls |-> issued,
                   delete_error |-> IF o3 \in ClientErrorCodes THEN o3 ELSE "none"]
             ELSE [raise |-> "none", details |-> Details("deleted", bucket_name, Absent),
                   calls |-> issued, delete_error |-> "none"]

\* a default handler that raises instead of answering
_default_cancellation_raises(resource_id, region) ==
    [raise |-> "other_exception", details |-> NoDetails, calls |-> {}, delete_error |-> "none"]

\* _default_cancellation: no AWS call, a "not_implemented" answer
_default_cancellation(resource_id, region) ==
    [raise |-> "none",
     details |-> Details("not_implemented", resource_id,
                         "Cancellation not implemented for this service type"),
     calls |-> {}, delete_error |-> "none"]

\* cancel_func(session, service_id, region)
CallHandler(handler, service_id, region, o1, hasContents, o2, o3) ==
    CASE handler = "_cancel_opensearch" -> _cancel_opensearch(service_id, o1)
      [] handler = "_cancel_opensearch_serverless" -> _cancel_opensearch_serverless(service_id, o1)
      [] handler = "_cancel_redshift" -> _cancel_redshift(service_id, o1)
      [] handler = "_cancel_lambda" -> _cancel_lambda(service_id, o1)
      [] handler = "_cancel_ec2" -> _cancel_ec2(service_id, o1)
      [] handler = "_cancel_rds" -> _cancel_rds(service_id, o1)
      [] handler = "_cancel_s3" -> _cancel_s3(service_id, o1, hasContents, o2, o3)
      [] handler = "_default_cancellation" -> _default_cancellation(service_id, region)

\* cancel_service: the dict it returns for what the handler did
cancel_service(service_name, h) ==
    IF h.raise = "none"
    THEN [raised |-> FALSE, http |-> 200, success |-> TRUE,
          message |-> "Successfully initiated cancellation for " \o service_name,
          error_code |-> Absent, details |-> h.details]
    ELSE IF h.raise \in ClientErrorCodes
    THEN [raised |-> FALSE, http |-> 200, success |-> FALSE,
          message |-> "Error canceling " \o service_name,
          error_code |-> h.raise, details |-> NoDetails]
    ELSE [raised |-> FALSE, http |-> 200, success |-> FALSE,
          message |-> "Error canceling " \o service_name,
          error_code |-> "UnknownError", details |-> NoDetails]

\* cancel_service_route: the 400 answer to a request without service_name
MissingServiceName ==
    [raised |-> FALSE, http |-> 400, success |-> FALSE,
     message |-> "Missing required parameter: service_name",
     error_code |-> Absent, details |-> NoDetails]

NoApiInput == [via |-> "none", service_name |-> Absent, service_id |-> NoId, region |-> Absent]
NoApiResult ==
    [raised |-> FALSE, http |-> 0, success |-> FALSE, message |-> Absent,
     error_code |-> Absent, details |-> NoDetails]

ApiIdle ==
    /\ api_input = NoApiInput
    /\ api_result = NoApiResult
    /\ api_calls = {}
    /\ api_delete_error = "none"

\* one call of cancel_service with the given arguments
DoCancelService(via, service_name, service_id, region) ==
    \E o1 \in CallOutcomes, o2 \in CallOutcomes, o3 \in CallOutcomes, hasContents \in BOOLEAN :
        LET h == CallHandler(cancellation_functions_get(service_name), service_id, region,
                             o1, hasContents, o2, o3)
        IN  /\ api_input' = [via |-> via, service_name |-> service_name,
                             service_id |-> service_id, region |-> region]
            /\ api_result' = cancel_service(service_name, h)
            /\ api_calls' = h.calls
            /\ api_delete_error' = h.delete_error

\* cancel_service_directly(service_name, service_id, region)
CancelServiceDirectly ==
    /\ api_input.via = "none"
    /\ \E service_name \in ApiServiceNames, service_id \in ResourceIds, region \in ApiRegions :
         DoCancelService("direct", service_name, service_id, region)
    /\ UNCHANGED <<today, ledgerFile, ctlVars, reportVars, adapterVars, libVars, auxVars>>

\* POST /api/cancel-service: service_name is required, service_id and region
\* are optional
CancelServiceRoute ==
    /\ api_input.via = "none"
    /\ \E hasName \in BOOLEAN, hasRegion \in BOOLEAN :
         IF hasName
         THEN \E service_name \in ApiServiceNames, service_id \in ResourceIds,
                 region \in ApiRegions :
                 DoCancelService("route", service_name, service_id,
                                 IF hasRegion THEN region ELSE DefaultRegion)
         ELSE /\ api_input' = [NoApiInput EXCEPT !.via = "route"]
              /\ api_result' = MissingServiceName
              /\ api_calls' = {}
              /\ api_delete_error' = "none"
    /\ UNCHANGED <<today, ledgerFile, ctlVars, reportVars, adapterVars, libVars, auxVars>>

\* the caller is done with the answer
ApiReturn ==
    /\ api_input.via # "none"
    /\ api_input' = NoApiInput
    /\ api_result' = NoApiResult
    /\ api_calls' = {}
    /\ api_delete_error' = "none"
    /\ UNCHANGED <<today, ledgerFile, ctlVars, reportVars, adapterVars, libVars, auxVars>>

\* ------------------------------------------ AWSCostAdapter.get_service_costs
CLAUDE_HAIKU == "Claude 3 Haiku"
REKOGNITION == "Amazon Rekognition"

AdapterNames == {OPENSEARCH, TAX, AWS_LAMBDA}
AdapterCosts == {0, 10, 30}
AdapterGroups == [name : AdapterNames, cost : AdapterCosts]
RecordTypes == {"Usage", "Usage Analytics"}
RecordGroups == [name : RecordTypes, cost : {10}]
BillingGroups == [name : {AWS_LAMBDA, COST_EXPLORER, TAX}, cost : {10}]

\* service_name.startswith("Amazon ") or service_name.startswith("AWS ")
HasAwsPrefix(name) ==
    name \in {OPENSEARCH, AWS_LAMBDA, REKOGNITION, COST_EXPLORER, SKILL_BUILDER, BEDROCK,
              "Amazon S3", "AWS Skill Builder", "AWS " \o TAX}

\* term in name, for the terms the adapter probes
Contains(name, term) ==
    CASE term = "Skill Builder" -> name \in {SKILL_BUILDER, "AWS Skill Builder"}
      [] term = "Claude" -> name \in ConsolidatedNames \cup {"AWS " \o CLAUDE_HAIKU}
      [] term = "Bedrock" -> name = BEDROCK
      [] term = "Cost Explorer" -> name = COST_EXPLORER
      [] term = "Usage Analytics" -> name = "Usage Analytics"
      [] term = "Billing" -> FALSE

\* lines 240-248: the display name
CleanServiceName(service_name) ==
    IF HasAwsPrefix(service_name) THEN service_name
    ELSE IF Contains(service_name, "Skill Builder") THEN "AWS Skill Builder"
    ELSE "AWS " \o service_name

\* lines 257-272: the status of a service-grouped entry, decided by its name
ServiceGroupStatus(service_name) ==
    IF \/ Contains(service_name, "Claude") \/ Contains(service_name, "Bedrock")
       \/ service_name = OPENSEARCH \/ service_name = "Amazon Simple Storage Service"
    THEN [status |-> "Cancelled", cancelled_on |-> "2025-04-21"]
    ELSE IF service_name = REKOGNITION \/ service_name = "Amazon Transcribe"
    THEN [status |-> "Pay-As-You-Go", cancelled_on |-> Absent]
    ELSE IF service_name = TAX
    THEN [status |-> "Required", cancelled_on |-> Absent]
    ELSE [status |-> "Active", cancelled_on |-> Absent]

AdapterEntry(name, cost, st) ==
    [name |-> name, cost |-> cost, status |-> st.status, cancelled_on |-> st.cancelled_on]

Unbound == "<unbound>"   \* a local variable that was never assigned

\* lines 231-284: the loop over the service groups; acc carries services,
\* service_set, the local clean_service_name and whether an exception escaped
RECURSIVE ServiceGroupPass(_)
ServiceGroupPass(groups) ==
    IF groups = << >>
    THEN [services |-> << >>, service_set |-> {}, clean_service_name |-> Unbound,
          raised |-> FALSE]
    ELSE LET acc == ServiceGroupPass(SubSeq(groups, 1, Len(groups) - 1))
             g == groups[Len(groups)]
             clean == CleanServiceName(g.name)
         IN  IF g.cost <= 0 THEN acc
             ELSE [services |-> Append(acc.services,
                                       AdapterEntry(clean, g.cost, ServiceGroupStatus(g.name))),
                   service_set |-> acc.service_set \cup {clean},
                   clean_service_name |-> clean,
                   raised |-> FALSE]

\* lines 314 and 357: the status of an entry added by a later pass, decided
\* by the clean_service_name left over from the service-group loop
LeftoverStatus(clean_service_name) ==
    IF clean_service_name \in {"Tax", "AWS Tax", "Tax on AWS services"}
    THEN [status |-> "Required", cancelled_on |-> Absent]
    ELSE [status |-> "Active", cancelled_on |-> Absent]

\* lines 287-327: the loop over the record-type groups; raised when the
\* loop reads clean_service_name before any assignment
RECURSIVE RecordTypePass(_, _)
RecordTypePass(acc, records) ==
    IF records = << >> THEN acc
    ELSE LET prev == RecordTypePass(acc, SubSeq(records, 1, Len(records) - 1))
             g == records[Len(records)]
         IN  IF prev.raised \/ g.cost <= 0 THEN prev
             ELSE IF ~(\E term \in {"Cost Explorer", "Usage Analytics", "Billing"} :
                          Contains(g.name, term))
             THEN prev
             ELSE IF COST_EXPLORER \in prev.service_set THEN prev
             ELSE IF prev.clean_service_name = Unbound
             THEN [prev EXCEPT !.raised = TRUE, !.service_set = @ \cup {COST_EXPLORER}]
             ELSE [prev EXCEPT
                     !.service_set = @ \cup {COST_EXPLORER},
                     !.services = Append(@, AdapterEntry(COST_EXPLORER, g.cost,
                                             LeftoverStatus(prev.clean_service_name)))]

\* AWSBillingDetective.get_all_billing_services: positive-cost services plus
\* the entries it always adds; [] on any error
CENT == 1
get_all_billing_services(billing, iamOk, fails) ==
    IF fails THEN << >>
    ELSE LET positive == SelectSeq(billing, LAMBDA g : g.cost > 0)
             withCe == IF \E i \in 1..Len(positive) : Contains(positive[i].name, "Cost Explorer")
                       THEN positive
                       ELSE Append(positive, [name |-> COST_EXPLORER, cost |-> CENT])
         IN  IF (\E i \in 1..Len(withCe) : Contains(withCe[i].name, "Skill Builder")) \/ ~iamOk
             THEN withCe
             ELSE Append(withCe, [name |-> "AWS Skill Builder", cost |-> CENT])

\* lines 331-383: services of the billing detective that are not listed yet;
\* existing_service_names is computed once, before the loop; the block is
\* abandoned (exception caught at line 382) at the first new service when
\* clean_service_name was never assigned
RECURSIVE AdditionalPass(_, _, _, _)
AdditionalPass(services, existing, clean_service_name, additional) ==
    IF additional = << >> THEN [services |-> services, raised |-> FALSE]
    ELSE LET prev == AdditionalPass(services, existing, clean_service_name,
                                    SubSeq(additional, 1, Len(additional) - 1))
             a == additional[Len(additional)]
         IN  IF prev.raised \/ a.name \in existing THEN prev
             ELSE IF clean_service_name = Unbound THEN [prev EXCEPT !.raised = TRUE]
             ELSE [prev EXCEPT !.services = Append(@, AdapterEntry(a.name, a.cost,
                                                     LeftoverStatus(clean_service_name)))]

\* a get_service_costs that returns the list in the order it was built
get_service_costs_unsorted(groups, records, billing, iamOk, billingFails, apiFails, enrichFails) ==
    IF apiFails THEN << >>
    ELSE LET p1 == ServiceGroupPass(groups)
             p2 == RecordTypePass(p1, records)
         IN  IF p2.raised THEN << >>
             ELSE LET p3 == AdditionalPass(p2.services,
                                           {p2.services[i].name : i \in 1..Len(p2.services)},
                                           p2.clean_service_name,
                                           get_all_billing_services(billing, iamOk, billingFails))
                  IN  IF enrichFails THEN << >> ELSE p3.services

\* get_service_costs: the returned list; [] when a Cost Explorer query, the
\* record-type loop or the enrichment raises (lines 399-402)
get_service_costs(groups, records, billing, iamOk, billingFails, apiFails, enrichFails) ==
    IF apiFails THEN << >>
    ELSE LET p1 == ServiceGroupPass(groups)
             p2 == RecordTypePass(p1, records)
         IN  IF p2.raised THEN << >>
             ELSE LET p3 == AdditionalPass(p2.services,
                                           {p2.services[i].name : i \in 1..Len(p2.services)},
                                           p2.clean_service_name,
                                           get_all_billing_services(billing, iamOk, billingFails))
                  IN  IF enrichFails THEN << >> ELSE SortByCostDesc(p3.services)

AdapterIdle ==
    /\ adapter_called = FALSE
    /\ adapter_services = << >>

\* GroupBy SERVICE: Cost Explorer answers with one group per service key
DistinctKeys(groups) ==
    \A i, j \in 1..Len(groups) : groups[i].name = groups[j].name => i = j

\* one call of AWSCostAdapter.get_service_costs
GetServiceCosts ==
    /\ ~adapter_called
    /\ adapter_called' = TRUE
    /\ \E groups \in {g \in SeqsUpTo(AdapterGroups, MaxItems) : DistinctKeys(g)},
          records \in SeqsUpTo(RecordGroups, 1),
          billing \in SeqsUpTo(BillingGroups, 1),
          iamOk \in BOOLEAN, billingFails \in BOOLEAN,
          apiFails \in BOOLEAN, enrichFails \in BOOLEAN :
         adapter_services' = get_service_costs(groups, records, billing, iamOk,
                                               billingFails, apiFails, enrichFails)
    /\ UNCHANGED <<today, ledgerFile, ctlVars, reportVars, apiVars, libVars, auxVars>>

\* the caller is done with the list
AdapterReturn ==
    /\ adapter_called
    /\ adapter_called' = FALSE
    /\ adapter_services' = << >>
    /\ UNCHANGED <<today, ledgerFile, ctlVars, reportVars, apiVars, libVars, auxVars>>

\* --------------------------------------------------- cost analysis service
MaxGroups == 3         \* service groups in one Cost Explorer answer

S3 == "Amazon S3"
AWS_SKILL_BUILDER == "AWS Skill Builder"

\* amounts in cents: 10.50, 5.25, 29.00 and one amount equal to a threshold
AnalysisGroups ==
    {[name |-> AWS_LAMBDA, cost |-> 1050], [name |-> S3, cost |-> 525],
     [name |-> AWS_SKILL_BUILDER, cost |-> 2900], [name |-> AWS_LAMBDA, cost |-> 1000]}
AnalysisThresholds == {1000, 2000, 5000}

\* what Cost Explorer and the billing detective answer while the data is unchanged
CeResponses ==
    [groups : SeqsUpTo(AnalysisGroups, MaxGroups), apiFails : BOOLEAN, billingFails : BOOLEAN]

\* cost_data_port.get_service_costs with the AWSCostAdapter wired in by
\* CLIAdapter.__init__ and create_service
cost_data_port_get_service_costs(resp) ==
    get_service_costs(resp.groups, << >>, << >>, TRUE, resp.billingFails, resp.apiFails, FALSE)

\* a filter that keeps the services below the threshold
analyze_costs_below(services, threshold) ==
    SelectSeq(services, LAMBDA service : service.cost < threshold)

\* CostAnalysisService.analyze_costs, lines 48-53: the filter
analyze_costs(services, threshold) ==
    SelectSeq(services, LAMBDA service : service.cost > threshold)

AttributeError == "AttributeError"
NoError == "none"

\* nova_cost.analyze_costs, line 64: CostAnalysisService has no attribute
\* analyze_service_costs, so the call raises after create_service
nova_cost_analyze_costs(resp, threshold) ==
    [raised |-> AttributeError, value |-> << >>]

NoResponse == [groups |-> << >>, apiFails |-> TRUE, billingFails |-> TRUE, asked |-> FALSE]

AnalysisIdle ==
    /\ ce_response = NoResponse
    /\ analyze_results = EmptyDict

\* the billing period's cost data, as every query of this period will see it
CostDataChanges ==
    /\ ~ce_response.asked
    /\ \E resp \in CeResponses :
         ce_response' = [groups |-> resp.groups, apiFails |-> resp.apiFails,
                         billingFails |-> resp.billingFails, asked |-> TRUE]
    /\ UNCHANGED <<today, ledgerFile, ctlVars, reportVars, apiVars, adapterVars, analyze_results, resolverVars,
                   scanVars, cliVars, auxVars>>

\* the period ends; the answers given so far refer to data that is gone
CostDataExpires ==
    /\ ce_response.asked
    /\ ce_response' = NoResponse
    /\ analyze_results' = EmptyDict
    /\ UNCHANGED <<today, ledgerFile, ctlVars, reportVars, apiVars, adapterVars, resolverVars,
                   scanVars, cliVars, auxVars>>

\* CostAnalysisService.analyze_costs(days_back, threshold)
AnalyzeCostsService ==
    /\ ce_response.asked
    /\ \E threshold \in AnalysisThresholds :
         /\ <<"service", threshold>> \notin DOMAIN analyze_results
         /\ analyze_results' =
              DictSet(analyze_results, <<"service", threshold>>,
                      [raised |-> NoError,
                       value |-> analyze_costs(cost_data_port_get_service_costs(ce_response),
                                               threshold)])
    /\ UNCHANGED <<today, ledgerFile, ctlVars, reportVars, apiVars, adapterVars, ce_response,
                   resolverVars, scanVars, cliVars, auxVars>>

\* nova_cost.analyze_costs(threshold, days_back)
AnalyzeCostsPackage ==
    /\ ce_response.asked
    /\ \E threshold \in AnalysisThresholds :
         /\ <<"package", threshold>> \notin DOMAIN analyze_results
         /\ analyze_results' =
              DictSet(analyze_results, <<"package", threshold>>,
                      nova_cost_analyze_costs(ce_response, threshold))
    /\ UNCHANGED <<today, ledgerFile, ctlVars, reportVars, apiVars, adapterVars, ce_response,
                   resolverVars, scanVars, cliVars, auxVars>>

\* ------------------------- AWSResourceScanner: the billing-source resolver
MaxUsageGroups == 2    \* usage-type groups in one Cost Explorer answer

None == "None"
DEFAULT_REGION == "us-east-1"

\* a usage-type string is held as the list of its parts between '-'
\* characters: the string contains a '-' iff the list has more than one part
UsageTypes ==
    {<<"USE1", "SearchOCU", "t2.small.search">>, <<"USE1", "ServerlessIndexingOCU">>,
     <<"EUW1", "ESInstance">>, <<"APS1", "SearchOCU">>, <<"ServerlessOCU">>, <<"EUW1">>,
     <<"use1", "serverlessocu">>}

REDSHIFT == "Amazon Redshift"
UsageGroups ==
    [service : {OPENSEARCH}, usage_type : UsageTypes, cost : {1, 100, 5000}]
      \cup {[service |-> REDSHIFT, usage_type |-> <<"USW2", "ServerlessUsage">>, cost |-> 5000]}

\* 'OpenSearch' in service
ContainsOpenSearch(service) == service = OPENSEARCH

\* a test for the substring that ignores the case of the letters
ContainsServerlessAnyCase(part) ==
    part \in {"ServerlessIndexingOCU", "ServerlessOCU", "ServerlessUsage", "serverlessocu"}

\* 'Serverless' in part
ContainsServerless(part) ==
    part \in {"ServerlessIndexingOCU", "ServerlessOCU", "ServerlessUsage"}

\* line 861: 'Serverless' in usage_type or 'ServerlessOCU' in usage_type
IsServerlessUsage(usage_type) ==
    \E i \in 1..Len(usage_type) : ContainsServerless(usage_type[i])

\* the first part, whether or not the string has a '-'
region_code_of_first_part(usage_type) == usage_type[1]

\* line 865: usage_type.split('-')[0] if '-' in usage_type else None
region_code(usage_type) ==
    IF Len(usage_type) > 1 THEN usage_type[1] ELSE None

\* lines 867-875
RegionCodes == {"USE1", "USE2", "USW1", "USW2", "EUW1", "EUW2", "EUC1"}
region_map(code) ==
    CASE code = "USE1" -> "us-east-1"
      [] code = "USE2" -> "us-east-2"
      [] code = "USW1" -> "us-west-1"
      [] code = "USW2" -> "us-west-2"
      [] code = "EUW1" -> "eu-west-1"
      [] code = "EUW2" -> "eu-west-2"
      [] code = "EUC1" -> "eu-central-1"

\* line 858: the groups the loop looks at
Considered(group) == ContainsOpenSearch(group.service) /\ group.cost > CENT

\* lines 853-877: the loop over the groups
RECURSIVE UsageTypeLoop(_)
UsageTypeLoop(groups) ==
    IF groups = << >> THEN [primary_region |-> None, is_serverless |-> FALSE]
    ELSE LET acc == UsageTypeLoop(SubSeq(groups, 1, Len(groups) - 1))
             group == groups[Len(groups)]
             code == region_code(group.usage_type)
         IN  IF ~Considered(group) THEN acc
             ELSE [is_serverless |-> acc.is_serverless \/ IsServerlessUsage(group.usage_type),
                   primary_region |->
                       IF code # None /\ code # "" /\ code \in RegionCodes
                          /\ acc.primary_region = None
                       THEN region_map(code)
                       ELSE acc.primary_region]

\* what the two services answer
TrailOutcomes == {"found", "none", "error"}
DOMAIN_NAME == "production-search"
ResolverInputs ==
    [kind : {"ok"}, groups : SeqsUpTo(UsageGroups, MaxUsageGroups), trail : TrailOutcomes]
      \cup [kind : {"query_fails", "empty_results", "malformed_group"},
            groups : SeqsUpTo(UsageGroups, 1), trail : {"none"}]
      \cup [kind : {"no_results_key"}, groups : {<< >>}, trail : TrailOutcomes]

\* _find_recent_opensearch_domain: a name, or None also when CloudTrail fails
_find_recent_opensearch_domain(trail) ==
    IF trail = "found" THEN DOMAIN_NAME ELSE None

BillingSource(kind, region, resource_type, resource_id) ==
    [kind |-> kind, region |-> region, resource_type |-> resource_type,
     resource_id |-> resource_id]

\* the None of line 911, in the shape of a result
NoSource == BillingSource(None, None, None, None)

\* find_exact_opensearch_billing_source: never lets an exception out
find_exact_opensearch_billing_source(input) ==
    IF input.kind \in {"query_fails", "empty_results", "malformed_group"}
    THEN [raised |-> FALSE, value |-> NoSource]
    ELSE LET loop == UsageTypeLoop(input.groups)
             primary_region == IF loop.primary_region = None THEN DEFAULT_REGION
                               ELSE loop.primary_region
             domain_name == _find_recent_opensearch_domain(input.trail)
         IN  [raised |-> FALSE,
              value |->
                 IF loop.is_serverless
                 THEN BillingSource("serverless", primary_region,
                                    "opensearch-serverless", "collections")
                 ELSE IF domain_name # None
                 THEN BillingSource("domain", primary_region, "opensearch", domain_name)
                 ELSE BillingSource("domains", primary_region, "opensearch", "domains")]

NoResolverInput == [kind |-> "none", groups |-> << >>, trail |-> "none"]
NoResolverResult ==
    [raised |-> FALSE, value |-> BillingSource("<pending>", None, None, None)]

ResolverIdle ==
    /\ resolver_input = NoResolverInput
    /\ resolver_result = NoResolverResult

\* one call of find_exact_opensearch_billing_source
FindExactOpenSearchBillingSource ==
    /\ resolver_input = NoResolverInput
    /\ \E input \in ResolverInputs :
         /\ resolver_input' = input
         /\ resolver_result' = find_exact_opensearch_billing_source(input)
    /\ UNCHANGED <<today, ledgerFile, ctlVars, reportVars, apiVars, adapterVars, analysisVars,
                   scanVars, cliVars, auxVars>>

\* the caller is done with the answer
ResolverReturn ==
    /\ resolver_input # NoResolverInput
    /\ resolver_input' = NoResolverInput
    /\ resolver_result' = NoResolverResult
    /\ UNCHANGED <<today, ledgerFile, ctlVars, reportVars, apiVars, adapterVars, analysisVars,
                   scanVars, cliVars, auxVars>>

\* ------------------------------ AWSResourceScanner: the multi-region scan
MaxScanRegions == 2    \* regions in AWSResourceScanner.regions

MAX_WORKERS == 10
RegionNames == <<"us-east-1", "eu-west-1", "us-west-2", "eu-central-1">>
ScanRegions == {RegionNames[i] : i \in 1..MaxScanRegions}

\* what one region answers: list_domain_names fails, or lists names of which
\* some cannot be described
RegionAnswers ==
    {[fails |-> TRUE, names |-> << >>, undescribed |-> {}]}
      \cup [fails : {FALSE}, names : {<< >>}, undescribed : {{}}]
      \cup [fails : {FALSE}, names : {<<"test-domain">>}, undescribed : SUBSET {"test-domain"}]
      \cup [fails : {FALSE}, names : {<<"test-domain", "logs">>},
            undescribed : {{}, {"logs"}}]

\* generate_direct_console_url(region, 'opensearch', resource_id)
generate_direct_console_url(region, resource_id) ==
    "https://console.aws.amazon.com/opensearch/home?region=" \o region \o "#/" \o resource_id

\* lines 195-200: details['DomainStatus'], or the basic info when describe_domain fails
DomainStatus(domain_name, answer) ==
    [DomainName |-> domain_name, described |-> domain_name \notin answer.undescribed]

\* a tag that names the default region whatever the future's region is
TagWithDefaultRegion(domain, region) ==
    [DomainName |-> domain.DomainName, described |-> domain.described,
     Region |-> DEFAULT_REGION,
     DeleteUrl |-> generate_direct_console_url(DEFAULT_REGION, domain.DomainName)]

\* lines 165-168: the region and the delete URL put on a domain
Tag(domain, region) ==
    [DomainName |-> domain.DomainName, described |-> domain.described,
     Region |-> region,
     DeleteUrl |-> generate_direct_console_url(region, domain.DomainName)]

\* a merge that keeps only the domains of the future handled last
MergeDroppingEarlier(merged, domains, region) ==
    [i \in 1..Len(domains) |-> Tag(domains[i], region)]

\* lines 164-169: the domains of one future appended to all_domains
Merge(merged, domains, region) ==
    merged \o [i \in 1..Len(domains) |-> Tag(domains[i], region)]

NoScanResult == [raised |-> FALSE, value |-> << >>]

ScanIdle ==
    /\ scan_pc = "idle"
    /\ region_answers = [r \in ScanRegions |-> [fails |-> TRUE, names |-> << >>, undescribed |-> {}]]
    /\ worker_state = [r \in ScanRegions |-> "none"]
    /\ worker_todo = [r \in ScanRegions |-> << >>]
    /\ domain_details = [r \in ScanRegions |-> << >>]
    /\ consumed = {}
    /\ all_domains = << >>
    /\ scan_result = NoScanResult

notScanVars == <<today, ledgerFile, ctlVars, reportVars, apiVars, adapterVars, analysisVars,
                 resolverVars, cliVars, auxVars>>

\* lines 158-160: the executor is created and one future per region submitted
ScanSubmit ==
    /\ scan_pc = "idle"
    /\ region_answers' \in [ScanRegions -> RegionAnswers]
    /\ worker_state' = [r \in ScanRegions |-> "queued"]
    /\ scan_pc' = "collecting"
    /\ UNCHANGED <<worker_todo, domain_details, consumed, all_domains, scan_result, notScanVars>>

Running == {r \in ScanRegions : worker_state[r] \in {"listing", "describing"}}

\* a pool thread picks the future up
WorkerStart(r) ==
    /\ worker_state[r] = "queued"
    /\ Cardinality(Running) < MAX_WORKERS
    /\ worker_state' = [worker_state EXCEPT ![r] = "listing"]
    /\ UNCHANGED <<scan_pc, region_answers, worker_todo, domain_details, consumed, all_domains,
                   scan_result, notScanVars>>

\* lines 188-190 and 204-209: the client and list_domain_names; [] on any error
WorkerList(r) ==
    /\ worker_state[r] = "listing"
    /\ IF region_answers[r].fails
       THEN /\ worker_state' = [worker_state EXCEPT ![r] = "done"]
            /\ UNCHANGED worker_todo
       ELSE /\ worker_state' = [worker_state EXCEPT ![r] = "describing"]
            /\ worker_todo' = [worker_todo EXCEPT ![r] = region_answers[r].names]
    /\ UNCHANGED <<scan_pc, region_answers, domain_details, consumed, all_domains, scan_result,
                   notScanVars>>

\* lines 193-202: one turn of the loop over the listed names, or its end
WorkerDescribe(r) ==
    /\ worker_state[r] = "describing"
    /\ IF worker_todo[r] = << >>
       THEN /\ worker_state' = [worker_state EXCEPT ![r] = "done"]
            /\ UNCHANGED <<worker_todo, domain_details>>
       ELSE /\ domain_details' =
                 [domain_details EXCEPT
                    ![r] = Append(@, DomainStatus(Head(worker_todo[r]), region_answers[r]))]
            /\ worker_todo' = [worker_todo EXCEPT ![r] = Tail(@)]
            /\ UNCHANGED worker_state
    /\ UNCHANGED <<scan_pc, region_answers, consumed, all_domains, scan_result, notScanVars>>

\* lines 161-171: as_completed hands over a finished future; its domains are merged
Collect(r) ==
    /\ scan_pc = "collecting"
    /\ worker_state[r] = "done"
    /\ r \notin consumed
    /\ all_domains' = Merge(all_domains, domain_details[r], r)
    /\ consumed' = consumed \cup {r}
    /\ UNCHANGED <<scan_pc, region_answers, worker_state, worker_todo, domain_details,
                   scan_result, notScanVars>>

\* line 173: every future was handled
ScanReturn ==
    /\ scan_pc = "collecting"
    /\ consumed = ScanRegions
    /\ scan_pc' = "returned"
    /\ scan_result' = [raised |-> FALSE, value |-> all_domains]
    /\ UNCHANGED <<region_answers, worker_state, worker_todo, domain_details, consumed,
                   all_domains, notScanVars>>

\* the caller is done with the list
ScanDone ==
    /\ scan_pc = "returned"
    /\ scan_pc' = "idle"
    /\ region_answers' = [r \in ScanRegions |-> [fails |-> TRUE, names |-> << >>, undescribed |-> {}]]
    /\ worker_state' = [r \in ScanRegions |-> "none"]
    /\ worker_todo' = [r \in ScanRegions |-> << >>]
    /\ domain_details' = [r \in ScanRegions |-> << >>]
    /\ consumed' = {}
    /\ all_domains' = << >>
    /\ scan_result' = NoScanResult
    /\ UNCHANGED notScanVars

\* ----------------------------------------------------------------- the CLI
Commands == {"report", "analyze", "none"}
CliEntryPoints == {"CLIAdapter.run", "cli_adapter.main", "cli.main"}
ReportOutcomes == {"ok", "raises"}

\* AWSCostMonitor.get_service_costs, lines 170-183: the sample data returned
\* when the Cost Explorer query fails
SampleData ==
    <<[service |-> SKILL_BUILDER, cost |-> 5800], [service |-> OPENSEARCH, cost |-> 1965],
      [service |-> "AWS Cost Explorer (Usage Analytics Service)", cost |-> 1215],
      [service |-> "Tax (AWS Services)", cost |-> 382], [service |-> BEDROCK, cost |-> 12],
      [service |-> "Claude 3.7 Sonnet (Amazon Bedrock Edition)", cost |-> 2],
      [service |-> S3, cost |-> 1]>>

\* AWSCostMonitor.get_service_costs: groups of at least one cent, sorted
monitor_get_service_costs(resp) ==
    IF resp.apiFails THEN SampleData
    ELSE SortByCostDesc(
           [i \in 1..Len(SelectSeq(resp.groups, LAMBDA g : ~(g.cost < CENT))) |->
               [service |-> SelectSeq(resp.groups, LAMBDA g : ~(g.cost < CENT))[i].name,
                cost |-> SelectSeq(resp.groups, LAMBDA g : ~(g.cost < CENT))[i].cost]])

\* nova_cost/api.py analyze_costs: the monitor's list filtered by cost > threshold
api_analyze_costs(resp, threshold) ==
    SelectSeq(monitor_get_service_costs(resp), LAMBDA service : service.cost > threshold)

CliResult(raised, caught, completed, exit_code) ==
    [raised |-> raised, caught |-> caught, completed |-> completed, exit_code |-> exit_code]

NoExit == -1

\* CLIAdapter.run, lines 59-99, on an adapter whose service has the
\* AWSCostAdapter as its cost data port
CLIAdapter_run(input) ==
    IF input.command = "report"
    THEN IF input.report = "ok"
         THEN CliResult(NoError, FALSE, TRUE, 0)
         ELSE CliResult(NoError, TRUE, FALSE, 1)
    ELSE IF input.command = "analyze"
    THEN LET high_cost_services ==
                 analyze_costs(cost_data_port_get_service_costs(input.resp), input.threshold)
         IN  IF high_cost_services # << >>
             \* line 89 reads service['service']; the adapter's entries are keyed
             \* 'name', so the print raises KeyError inside the try
             THEN CliResult(NoError, TRUE, FALSE, 1)
             ELSE CliResult(NoError, FALSE, TRUE, 0)
    ELSE CliResult(NoError, FALSE, FALSE, 1)

\* cli_adapter.main, lines 102-105: CLIAdapter() calls HTMLReportAdapter()
\* without its required cost_adapter argument
cli_adapter_main(input) == CliResult("TypeError", FALSE, FALSE, NoExit)

\* nova_cost/cli.py main, lines 32-45: nothing is caught; analyze answers
\* 0 if the result is non-empty and 1 otherwise
cli_main(input) ==
    IF input.command = "report"
    THEN IF input.report = "ok"
         THEN CliResult(NoError, FALSE, TRUE, 0)
         ELSE CliResult("Exception", FALSE, FALSE, NoExit)
    ELSE IF input.command = "analyze"
    THEN IF api_analyze_costs(input.resp, input.threshold) # << >>
         THEN CliResult(NoError, FALSE, TRUE, 0)
         ELSE CliResult(NoError, FALSE, TRUE, 1)
    ELSE CliResult(NoError, FALSE, FALSE, 1)

CliInputs ==
    [entry : CliEntryPoints, command : Commands, threshold : AnalysisThresholds,
     resp : CeResponses, report : ReportOutcomes]

NoCliInput ==
    [entry |-> "none", command |-> "none", threshold |-> 0,
     resp |-> [groups |-> << >>, apiFails |-> TRUE, billingFails |-> TRUE], report |-> "ok"]
NoCliResult == CliResult(NoError, FALSE, FALSE, NoExit)

CliIdle ==
    /\ cli_input = NoCliInput
    /\ cli_result = NoCliResult

notCliVars == <<today, ledgerFile, ctlVars, reportVars, apiVars, adapterVars, analysisVars,
                resolverVars, scanVars, auxVars>>

\* CLIAdapter.run(argv)
CliAdapterRun ==
    /\ cli_input = NoCliInput
    /\ \E input \in CliInputs :
         /\ input.entry = "CLIAdapter.run"
         /\ cli_input' = input
         /\ cli_result' = CLIAdapter_run(input)
    /\ UNCHANGED notCliVars

\* nova_cost.adapters.cli_adapter.main(argv)
CliAdapterMain ==
    /\ cli_input = NoCliInput
    /\ \E input \in CliInputs :
         /\ input.entry = "cli_adapter.main"
         /\ cli_input' = input
         /\ cli_result' = cli_adapter_main(input)
    /\ UNCHANGED notCliVars

\* nova_cost.cli.main(argv)
CliMain ==
    /\ cli_input = NoCliInput
    /\ \E input \in CliInputs :
         /\ input.entry = "cli.main"
         /\ cli_input' = input
         /\ cli_result' = cli_main(input)
    /\ UNCHANGED notCliVars

\* the process ends
CliExit ==
    /\ cli_input # NoCliInput
    /\ cli_input' = NoCliInput
    /\ cli_result' = NoCliResult
    /\ UNCHANGED notCliVars

\* ------------------------------------------------------------ cost queries
\* The four cost queries of the package: AWSCostAdapter.get_service_costs
\* and get_daily_costs (adapters/aws_cost_adapter.py) and
\* AWSCostMonitor.get_service_costs and get_daily_costs
\* (services/aws_cost_monitor.py).  A day is its day number; the text of
\* 'TimePeriod.Start' and of strftime('%Y-%m-%d') stands in one-to-one
\* correspondence with it.
MaxDailyRows == 2      \* days in one DAILY answer of Cost Explorer

DailyGroups == {[name |-> AWS_LAMBDA, cost |-> 1050], [name |-> S3, cost |-> 0]}
DailyRows == [date : {1, 2}, cost : {0, 1234}, groups : SeqsUpTo(DailyGroups, 1)]
DailyResponses == [days : SeqsUpTo(DailyRows, MaxDailyRows), apiFails : BOOLEAN]
DaysBack == {1, 5, 30}

AWS_SERVICES == "AWS Services"
NO_SIGNIFICANT_COSTS == "No significant costs"
ServiceDetail(text, items, more) == [text |-> text, items |-> items, more |-> more]

\* aws_cost_adapter.py lines 154-171: the positive-cost groups of one day,
\* the first three joined, "+n more" for the rest, a fixed text when none
service_breakdown(groups) ==
    LET services == SelectSeq(groups, LAMBDA g : g.cost > 0)
    IN  IF services = << >> THEN ServiceDetail(NO_SIGNIFICANT_COSTS, << >>, 0)
        ELSE ServiceDetail("", SubSeq(services, 1, IF Len(services) > 3 THEN 3 ELSE Len(services)),
                           IF Len(services) > 3 THEN Len(services) - 3 ELSE 0)

DailyCost(date, cost, service_detail) ==
    [date |-> date, cost |-> cost, service_detail |-> service_detail]

\* AWSCostAdapter.get_daily_costs: one tuple per day of the total answer;
\* [] when either Cost Explorer call raises (lines 183-186)
adapter_get_daily_costs(resp) ==
    IF resp.apiFails THEN << >>
    ELSE [i \in 1..Len(resp.days) |->
            DailyCost(resp.days[i].date, resp.days[i].cost,
                      service_breakdown(resp.days[i].groups))]

\* aws_cost_monitor.py lines 103-107: every fifth day back a spike
sample_cost(i) == IF i % 5 = 0 THEN 975 ELSE 300 + 100 * (i % 3)

\* AWSCostMonitor.get_daily_costs: one tuple per day; sample data for the
\* days_back days before today when the call raises (lines 91-111)
monitor_get_daily_costs(resp, days_back, now) ==
    IF resp.apiFails
    THEN [k \in 1..days_back |->
            DailyCost(now - (days_back + 1 - k), sample_cost(days_back + 1 - k),
                      ServiceDetail(AWS_SERVICES, << >>, 0))]
    ELSE [i \in 1..Len(resp.days) |->
            DailyCost(resp.days[i].date, resp.days[i].cost,
                      ServiceDetail(AWS_SERVICES, << >>, 0))]

Queries == {"AWSCostAdapter.get_service_costs", "AWSCostAdapter.get_daily_costs",
            "AWSCostMonitor.get_service_costs", "AWSCostMonitor.get_daily_costs"}
QueryInput(query, apiFails, days_back) ==
    [query |-> query, apiFails |-> apiFails, days_back |-> days_back]
QueryResult(raised, rows) == [raised |-> raised, rows |-> rows]
NoQueryInput == QueryInput("none", FALSE, 0)
NoQueryResult == QueryResult(FALSE, << >>)
QueryIdle == query_input = NoQueryInput /\ query_result = NoQueryResult

notQueryVars ==
    <<today, ledgerFile, ctlVars, reportVars, apiVars, adapterVars, libVars, consolidationVars,
      cacheVars, reportGenVars, waitVars, detectVars>>

\* AWSCostAdapter.get_service_costs(days_back)
AdapterGetServiceCosts ==
    /\ query_input = NoQueryInput
    /\ \E resp \in CeResponses, days_back \in DaysBack :
        /\ query_input' = QueryInput("AWSCostAdapter.get_service_costs", resp.apiFails, days_back)
        /\ query_result' = QueryResult(FALSE, cost_data_port_get_service_costs(resp))
    /\ UNCHANGED notQueryVars

\* AWSCostAdapter.get_daily_costs(days_back)
AdapterGetDailyCosts ==
    /\ query_input = NoQueryInput
    /\ \E resp \in DailyResponses, days_back \in DaysBack :
        /\ query_input' = QueryInput("AWSCostAdapter.get_daily_costs", resp.apiFails, days_back)
        /\ query_result' = QueryResult(FALSE, adapter_get_daily_costs(resp))
    /\ UNCHANGED notQueryVars

\* AWSCostMonitor.get_service_costs(days_back)
MonitorGetServiceCosts ==
    /\ query_input = NoQueryInput
    /\ \E resp \in CeResponses, days_back \in DaysBack :
        /\ query_input' = QueryInput("AWSCostMonitor.get_service_costs", resp.apiFails, days_back)
        /\ query_result' = QueryResult(FALSE, monitor_get_service_costs(resp))
    /\ UNCHANGED notQueryVars

\* AWSCostMonitor.get_daily_costs(days_back)
MonitorGetDailyCosts ==
    /\ query_input = NoQueryInput
    /\ \E resp \in DailyResponses, days_back \in DaysBack :
        /\ query_input' = QueryInput("AWSCostMonitor.get_daily_costs", resp.apiFails, days_back)
        /\ query_result' = QueryResult(FALSE, monitor_get_daily_costs(resp, days_back, today))
    /\ UNCHANGED notQueryVars

\* the caller drops the answer
QueryReturn ==
    /\ query_input # NoQueryInput
    /\ query_input' = NoQueryInput
    /\ query_result' = NoQueryResult
    /\ UNCHANGED notQueryVars

\* ------------------------------------------------ consolidation of line items
\* run_cost_analysis flattens the periods of the Cost Explorer answer into
\* one list of line items; generate_html_report folds that list into
\* service_cost_map (nova_act/samples/aws/aws_master_controller.py).
MaxPeriods == 2        \* periods (months) in one answer of get_service_costs

PeriodGroups ==
    [service : {BEDROCK, CLAUDE_HAIKU}, cost : {10, 30}]
        \cup {[service |-> TAX, cost |-> 10], [service |-> REFUND, cost |-> -10]}
DistinctServices(groups) ==
    \A i, j \in 1..Len(groups) : groups[i].service = groups[j].service => i = j
Periods == {g \in SeqsUpTo(PeriodGroups, MaxItems) : DistinctServices(g)}
ServiceCostsData == SeqsUpTo(Periods, MaxPeriods)

\* run_cost_analysis, lines 204-213: one line item per group of every period
RECURSIVE FlattenPeriods(_)
FlattenPeriods(periods) ==
    IF periods = << >> THEN << >>
    ELSE FlattenPeriods(SubSeq(periods, 1, Len(periods) - 1)) \o periods[Len(periods)]

\* the items of service_cost_map, in insertion order, as line items
MapItems(m) == [i \in 1..Len(m) |-> [service |-> m[i].name, cost |-> m[i].cost]]

ConsolidationIdle ==
    /\ consolidation_pc = "idle"
    /\ cost_data = << >>
    /\ service_cost_map = << >>
    /\ service_cost_map_again = << >>

notConsolidationVars ==
    <<today, ledgerFile, ctlVars, reportVars, apiVars, adapterVars, libVars, queryVars,
      cacheVars, reportGenVars, waitVars, detectVars>>

\* run_cost_analysis followed by the consolidation loop of generate_html_report
Consolidate ==
    /\ consolidation_pc = "idle"
    /\ consolidation_pc' = "consolidated"
    /\ \E periods \in ServiceCostsData :
        /\ cost_data' = FlattenPeriods(periods)
        /\ service_cost_map' = BuildServiceCostMap(FlattenPeriods(periods))
    /\ UNCHANGED service_cost_map_again
    /\ UNCHANGED notConsolidationVars

\* the consolidation loop applied to the list it produced
ConsolidateAgain ==
    /\ consolidation_pc = "consolidated"
    /\ consolidation_pc' = "again"
    /\ service_cost_map_again' = BuildServiceCostMap(MapItems(service_cost_map))
    /\ UNCHANGED <<cost_data, service_cost_map>>
    /\ UNCHANGED notConsolidationVars

\* the report is written and the maps are dropped
ConsolidationDone ==
    /\ consolidation_pc # "idle"
    /\ consolidation_pc' = "idle"
    /\ cost_data' = << >>
    /\ service_cost_map' = << >>
    /\ service_cost_map_again' = << >>
    /\ UNCHANGED notConsolidationVars

\* --------------------------------------------------- service paths cache
\* AWSMasterController.load_service_paths_cache, save_service_paths_cache and
\* update_service_paths_with_nova_act.  A mapping takes a service key to the
\* console URL last stored for it: the built-in one or a discovered one.
DAY_SECONDS == 86400
CacheAges == {0, 86399, 86400, 172800}   \* seconds since the file was written

BUILT_IN == "built-in url"
DISCOVERED == "discovered url"
default_paths == [k \in {"Lambda", "S3"} |-> BUILT_IN]
SpecialKeys == {"OpenSearch Domains"}
\* what one Nova Act session discovers: a URL for some of the keys
Discoveries == {[k \in keys |-> DISCOVERED] : keys \in SUBSET ({"Lambda", "S3"} \cup SpecialKeys)}

\* dict.update
DictUpdate(d, e) == [k \in (DOMAIN d) \cup (DOMAIN e) |-> IF k \in DOMAIN e THEN e[k] ELSE d[k]]

CacheFile(state, age, content) == [state |-> state, age |-> age, content |-> content]
CacheMissing == CacheFile("missing", 0, << >>)

\* lines 16-32: the module imports os, sys, json, ..., datetime; not time
ImportedModules == {"os", "sys", "argparse", "json", "re", "random", "string", "boto3"}

\* load_service_paths_cache, lines 1222-1234: the try block and the fallback
load_service_paths_cache(file) ==
    IF file.state = "missing" THEN default_paths
    ELSE IF "time" \notin ImportedModules THEN default_paths    \* NameError, caught at line 1231
    ELSE IF file.age < DAY_SECONDS
         THEN IF file.state = "ok" THEN file.content
              ELSE default_paths                                \* json.load raises, caught
    ELSE default_paths

\* save_service_paths_cache: the file rewritten, or left alone when open fails
save_service_paths_cache(file, service_paths_arg, openFails) ==
    IF openFails THEN file ELSE CacheFile("ok", 0, service_paths_arg)

CacheIdle ==
    /\ cache_pc = "none"
    /\ cache_file = CacheMissing
    /\ cache_seen = CacheMissing
    /\ service_paths = << >>

notCacheVars ==
    <<today, ledgerFile, ctlVars, reportVars, apiVars, adapterVars, libVars, queryVars,
      consolidationVars, reportGenVars, waitVars, detectVars>>

\* AWSMasterController.__init__, line 118
ControllerInit ==
    /\ cache_pc = "none"
    /\ cache_pc' = "loaded"
    /\ cache_seen' = cache_file
    /\ service_paths' = load_service_paths_cache(cache_file)
    /\ UNCHANGED cache_file
    /\ UNCHANGED notCacheVars

\* update_service_paths_with_nova_act, lines 1359-1361, when Nova Act ran
UpdateServicePaths ==
    /\ cache_pc = "loaded"
    /\ cache_pc' = "updated"
    /\ \E discovered \in Discoveries, openFails \in BOOLEAN :
        /\ service_paths' = DictUpdate(service_paths, discovered)
        /\ cache_file' = save_service_paths_cache(cache_file,
                                                  DictUpdate(service_paths, discovered), openFails)
    /\ UNCHANGED cache_seen
    /\ UNCHANGED notCacheVars

\* the process is killed between open(..., 'w') and the end of json.dump
SaveInterrupted ==
    /\ cache_pc = "loaded"
    /\ cache_pc' = "none"
    /\ cache_file' = CacheFile("corrupt", 0, << >>)
    /\ cache_seen' = CacheMissing
    /\ service_paths' = << >>
    /\ UNCHANGED notCacheVars

\* the process ends; the file stays
ControllerExit ==
    /\ cache_pc \in {"loaded", "updated"}
    /\ cache_pc' = "none"
    /\ cache_seen' = CacheMissing
    /\ service_paths' = << >>
    /\ UNCHANGED cache_file
    /\ UNCHANGED notCacheVars

\* time passes between two runs
TimePasses ==
    /\ cache_pc = "none"
    /\ cache_file.state # "missing"
    /\ \E age \in CacheAges :
        /\ age > cache_file.age
        /\ cache_file' = [cache_file EXCEPT !.age = age]
    /\ UNCHANGED <<cache_pc, cache_seen, service_paths>>
    /\ UNCHANGED notCacheVars

\* ----------------------------------------------------- cost report service
\* CostAnalysisService.generate_cost_report (domain/services.py) with the
\* AWSCostAdapter and the HTMLReportAdapter wired in by create_service.
DEFAULT_DAYS_BACK == 30
ReportWindows == {7, DEFAULT_DAYS_BACK}

\* what Cost Explorer answers for one window while a report is generated
WindowServiceAnswers ==
    {r \in CeResponses : Len(r.groups) <= 1 /\ ~r.billingFails /\ ~r.apiFails}
WindowDailyAnswers ==
    {r \in DailyResponses : Len(r.days) <= 1 /\ ~r.apiFails
                            /\ \A i \in 1..Len(r.days) : r.days[i].groups = << >>}
WindowAnswers == [services : WindowServiceAnswers, daily : WindowDailyAnswers]
CurrentMonthCosts == {0, 4321}

RECURSIVE SumCosts(_)
SumCosts(rows) == IF rows = << >> THEN 0 ELSE rows[1].cost + SumCosts(Tail(rows))

ReportData(service_costs_arg, daily_costs, total_cost) ==
    [service_costs |-> service_costs_arg, daily_costs |-> daily_costs, total_cost |-> total_cost]

\* generate_cost_report, lines 72-83: the data obtained for the window of
\* days_back days and handed over through add_service_costs, add_daily_costs
\* and add_total_cost
handed_report_data(ce, days_back) ==
    LET services == cost_data_port_get_service_costs(ce[days_back].services)
        daily_costs == adapter_get_daily_costs(ce[days_back].daily)
    IN  ReportData(services, daily_costs, SumCosts(daily_costs))

\* AWSCostAdapter.get_report_data: the service costs of the default window
get_report_data(ce, current_month_cost) ==
    [current_month_cost |-> current_month_cost,
     service_costs |-> cost_data_port_get_service_costs(ce[DEFAULT_DAYS_BACK].services)]

\* HTMLReportAdapter.generate_report: report_data is replaced by
\* get_report_data() (line 110), the daily costs by get_daily_costs() of the
\* default window (lines 113-114), and the missing total_cost is computed
\* from the service costs or the current month's cost (lines 187-196)
generate_report(report_data, ce, current_month_cost) ==
    LET fresh == get_report_data(ce, current_month_cost)
        daily_costs == adapter_get_daily_costs(ce[DEFAULT_DAYS_BACK].daily)
    IN  ReportData(fresh.service_costs, daily_costs,
                   IF fresh.service_costs # << >> THEN SumCosts(fresh.service_costs)
                   ELSE fresh.current_month_cost)

ReportGenIdle ==
    /\ report_days_back = 0
    /\ report_handed = ReportData(<< >>, << >>, 0)
    /\ report_rendered = ReportData(<< >>, << >>, 0)

notReportGenVars ==
    <<today, ledgerFile, ctlVars, reportVars, apiVars, adapterVars, libVars, queryVars,
      consolidationVars, cacheVars, waitVars, detectVars>>

\* CostAnalysisService.generate_cost_report(days_back)
GenerateCostReport ==
    /\ report_days_back = 0
    /\ \E days_back \in ReportWindows, ce \in [ReportWindows -> WindowAnswers],
          current_month_cost \in CurrentMonthCosts :
        /\ report_days_back' = days_back
        /\ report_handed' = handed_report_data(ce, days_back)
        /\ report_rendered' = generate_report(handed_report_data(ce, days_back), ce,
                                              current_month_cost)
    /\ UNCHANGED notReportGenVars

\* the caller has the report path; the service object is dropped
CostReportDone ==
    /\ report_days_back # 0
    /\ report_days_back' = 0
    /\ report_handed' = ReportData(<< >>, << >>, 0)
    /\ report_rendered' = ReportData(<< >>, << >>, 0)
    /\ UNCHANGED notReportGenVars

\* ------------------------------------------------- wait-for-deletion loops
\* The delete-and-wait loops of AWSServiceCancelerBoto3: collections in
\* cancel_opensearch_serverless (lines 122-144), pipelines in
\* _process_ingestion_pipelines (lines 188-210) and _process_pipeline_summaries
\* (lines 219-241).  The controller model above covers the runs in which
\* every wait ends; here each status poll is a step.  wait_found lists the
\* resources the list calls of the run return, over all regions.
MaxResources == 2      \* resources one run finds and deletes
MaxPolls == 3          \* status polls the model counts; more are counted as MaxPolls

ResourceKinds == {"collection", "ingestion_pipeline", "pipeline"}
ResourceIdents == {"r-1", "r-2", "r-3"}
FoundResources == [kind : ResourceKinds, id : ResourceIdents]
DistinctIds(found) == \A i, j \in 1..Len(found) : found[i].id = found[j].id => i = j
FoundLists == {f \in SeqsUpTo(FoundResources, MaxResources) : DistinctIds(f)}

\* what get_collection / get_ingestion_pipeline / get_pipeline report
ACTIVE == "ACTIVE"
DELETING == "DELETING"
FAILED == "FAILED"
GONE == "ResourceNotFoundException"

WaitIdle ==
    /\ wait_pc = "idle"
    /\ wait_found = << >>
    /\ wait_index = 0
    /\ wait_polls = 0
    /\ wait_status = [id \in ResourceIdents |-> ACTIVE]

notWaitVars ==
    <<today, ledgerFile, ctlVars, reportVars, apiVars, adapterVars, libVars, queryVars,
      consolidationVars, cacheVars, reportGenVars, detectVars>>

\* the list calls of one run return the resources found
CancelRunBegin ==
    /\ wait_pc = "idle"
    /\ \E found \in FoundLists :
        /\ wait_found' = found
        /\ wait_status' = [id \in ResourceIdents |-> ACTIVE]
    /\ wait_index' = 1
    /\ wait_polls' = 0
    /\ wait_pc' = "delete"
    /\ UNCHANGED notWaitVars

\* lines 128-131, 194-197, 225-228: the delete call for the next resource; an
\* exception skips the wait (lines 143, 209, 240)
DeleteCall ==
    /\ wait_pc = "delete"
    /\ wait_index <= Len(wait_found)
    /\ \E raises \in BOOLEAN :
        IF raises
        THEN /\ wait_index' = wait_index + 1
             /\ UNCHANGED <<wait_pc, wait_status>>
        ELSE /\ wait_status' = [wait_status EXCEPT ![wait_found[wait_index].id] = DELETING]
             /\ wait_pc' = "poll"
             /\ UNCHANGED wait_index
    /\ wait_polls' = 0
    /\ UNCHANGED wait_found
    /\ UNCHANGED notWaitVars

\* lines 135-142, 201-208, 232-239: the status call of one iteration of
\* while True; the loop breaks only on ResourceNotFoundException, otherwise
\* it prints the status and goes to sleep
PollStatus ==
    /\ wait_pc = "poll"
    /\ IF wait_status[wait_found[wait_index].id] = GONE
       THEN /\ wait_pc' = "delete"
            /\ wait_index' = wait_index + 1
            /\ wait_polls' = 0
       ELSE /\ wait_polls' = IF wait_polls < MaxPolls THEN wait_polls + 1 ELSE MaxPolls
            /\ wait_pc' = "sleep"
            /\ UNCHANGED wait_index
    /\ UNCHANGED <<wait_found, wait_status>>
    /\ UNCHANGED notWaitVars

\* lines 139, 205, 236: time.sleep(5) returns and the loop polls again
Sleep ==
    /\ wait_pc = "sleep"
    /\ wait_pc' = "poll"
    /\ UNCHANGED <<wait_found, wait_index, wait_polls, wait_status>>
    /\ UNCHANGED notWaitVars

\* the status call raises another exception (throttling, no network), which
\* the except around the delete catches
PollFails ==
    /\ wait_pc = "poll"
    /\ wait_pc' = "delete"
    /\ wait_index' = wait_index + 1
    /\ wait_polls' = 0
    /\ UNCHANGED <<wait_found, wait_status>>
    /\ UNCHANGED notWaitVars

\* AWS finishes a deletion
DeletionCompletes ==
    /\ \E id \in ResourceIdents :
        /\ wait_status[id] = DELETING
        /\ wait_status' = [wait_status EXCEPT ![id] = GONE]
    /\ UNCHANGED <<wait_pc, wait_found, wait_index, wait_polls>>
    /\ UNCHANGED notWaitVars

\* AWS gives up a deletion; the resource stays
DeletionFails ==
    /\ \E id \in ResourceIdents :
        /\ wait_status[id] = DELETING
        /\ wait_status' = [wait_status EXCEPT ![id] = FAILED]
    /\ UNCHANGED <<wait_pc, wait_found, wait_index, wait_polls>>
    /\ UNCHANGED notWaitVars

\* every resource was handled: the run returns
CancelRunEnd ==
    /\ wait_pc = "delete"
    /\ wait_index > Len(wait_found)
    /\ wait_pc' = "idle"
    /\ wait_found' = << >>
    /\ wait_index' = 0
    /\ wait_polls' = 0
    /\ wait_status' = [id \in ResourceIdents |-> ACTIVE]
    /\ UNCHANGED notWaitVars

\* ------------------------------------------ detection of invisible resources
\* AWSBillingDetective.investigate_opensearch_charges and
\* detect_invisible_resources (utils/aws_billing_detective.py).
BilledRegionOrder == <<"us-east-1", "ap-south-1", "eu-west-1">>
BilledCosts == {0, 1, 300, 1250}       \* cents; 0 stands for no group of that region
serverless_regions == {"us-east-1", "us-east-2", "us-west-2", "eu-west-1", "eu-central-1"}
KeyError == "KeyError"

\* what the queries and scans of one investigation answer
Investigations ==
    [costs : [1..Len(BilledRegionOrder) -> BilledCosts], billingFails : BOOLEAN,
     standard_domains : BOOLEAN, serverless_collections : BOOLEAN, recent_deletions : BOOLEAN]

\* _get_opensearch_billing_data, lines 248-350: the regions billed more than
\* one cent, highest cost first; the initial dict when Cost Explorer raises
_get_opensearch_billing_data(inv) ==
    IF inv.billingFails
    THEN [has_charges |-> FALSE, regions_with_costs |-> << >>]
    ELSE LET groups == [i \in 1..Len(BilledRegionOrder) |->
                           [region |-> BilledRegionOrder[i], cost |-> inv.costs[i]]]
             region_costs == SelectSeq(groups, LAMBDA g : g.cost > CENT)
         IN  [has_charges |-> region_costs # << >>,
              regions_with_costs |-> SortByCostDesc(region_costs)]

\* investigate_opensearch_charges: the keys of findings that
\* detect_invisible_resources reads; billing_data is set at line 176 only
investigate_opensearch_charges(inv) ==
    LET billing_data == _get_opensearch_billing_data(inv)
    IN  IF ~billing_data.has_charges
        THEN [has_billing_data |-> FALSE, billing_data |-> billing_data,
              detected_resources |-> FALSE]
        ELSE [has_billing_data |-> TRUE, billing_data |-> billing_data,
              detected_resources |-> inv.standard_domains \/ inv.serverless_collections
                                        \/ inv.recent_deletions]

InvisibleAction(name, region) == [name |-> name, region |-> region]

\* lines 644-682: the actions added when charges exist and no resource was found
HiddenResourceActions(regions_with_costs) ==
    [i \in 1..Len(regions_with_costs) |->
        InvisibleAction("OpenSearch Hidden Resources", regions_with_costs[i].region)]
      \o SelectSeq([i \in 1..Len(regions_with_costs) |->
                       InvisibleAction("OpenSearch Serverless", regions_with_costs[i].region)],
                   LAMBDA a : a.region \in serverless_regions)
      \o <<InvisibleAction("Check CloudTrail for Deleted Resources", "us-east-1"),
           InvisibleAction("Detailed Billing Analysis", "us-east-1"),
           InvisibleAction("Contact AWS Support", "us-east-1")>>

\* lines 685-696: the actions added when the list is still empty
FallbackActions ==
    <<InvisibleAction("AWS Billing Console (Direct Link)", "us-east-1"),
      InvisibleAction("Check IAM Permissions", "us-east-1")>>

DetectResult(raised, actions) == [raised |-> raised, actions |-> actions]

\* detect_invisible_resources: line 640 subscripts findings["billing_data"]
detect_invisible_resources(inv) ==
    LET opensearch_findings == investigate_opensearch_charges(inv)
    IN  IF ~opensearch_findings.has_billing_data THEN DetectResult(KeyError, << >>)
        ELSE IF opensearch_findings.billing_data.has_charges
                /\ ~opensearch_findings.detected_resources
        THEN DetectResult("none",
                          HiddenResourceActions(opensearch_findings.billing_data.regions_with_costs))
        ELSE DetectResult("none", FallbackActions)

NoInvestigation ==
    [costs |-> [i \in 1..Len(BilledRegionOrder) |-> 0], billingFails |-> FALSE,
     standard_domains |-> FALSE, serverless_collections |-> FALSE, recent_deletions |-> FALSE]
DetectIdle ==
    /\ detect_called = FALSE
    /\ detect_input = NoInvestigation
    /\ detect_result = DetectResult("none", << >>)

notDetectVars ==
    <<today, ledgerFile, ctlVars, reportVars, apiVars, adapterVars, libVars, queryVars,
      consolidationVars, cacheVars, reportGenVars, waitVars>>

\* one call of detect_invisible_resources
DetectInvisibleResources ==
    /\ ~detect_called
    /\ detect_called' = TRUE
    /\ \E inv \in Investigations :
        /\ detect_input' = inv
        /\ detect_result' = detect_invisible_resources(inv)
    /\ UNCHANGED notDetectVars

\* the caller is done with the actions
DetectReturn ==
    /\ detect_called
    /\ detect_called' = FALSE
    /\ detect_input' = NoInvestigation
    /\ detect_result' = DetectResult("none", << >>)
    /\ UNCHANGED notDetectVars

AuxIdle ==
    /\ QueryIdle
    /\ ConsolidationIdle
    /\ CacheIdle
    /\ ReportGenIdle
    /\ WaitIdle
    /\ DetectIdle

LibIdle ==
    /\ AnalysisIdle
    /\ ResolverIdle
    /\ ScanIdle
    /\ CliIdle

\* -------------------------------------------------------------------- Init
PriorLedgers ==
    {FileMissing, FileCorrupt, FileOk(EmptyDict),
     FileOk(DictSet(EmptyDict, AWS_LAMBDA, CanceledRecord(1, 30)))}

Init ==
    /\ today = 1
    /\ ledgerFile \in PriorLedgers
    /\ pc = "idle"
    /\ cost_threshold \in Thresholds
    /\ service_costs = << >>
    /\ services_exceeding = << >>
    /\ canceled_services = EmptyDict
    /\ idx = 0
    /\ actionRan = {}
    /\ deleteFailed = {}
    /\ lastRecord = NoRecord
    /\ loadedFrom = "none"
    /\ service_status = EmptyDict
    /\ report_rows = << >>
    /\ ApiIdle
    /\ AdapterIdle
    /\ LibIdle
    /\ AuxIdle

\* ----------------------------------------------------------------- actions
\* the clock moves on between any two steps
Tick ==
    /\ today < MaxDay
    /\ today' = today + 1
    /\ UNCHANGED <<ledgerFile, ctlVars, reportVars, apiVars, adapterVars, libVars, auxVars>>

\* check_and_cancel_services, lines 360-373: analysis, sort, threshold filter
CheckAndCancelBegin ==
    /\ pc = "idle"
    /\ \E items \in ServiceCostLists :
         /\ service_costs' = items
         /\ services_exceeding' = FilterExceeding(SortByCostDesc(items), cost_threshold)
    /\ pc' = IF services_exceeding' = << >> THEN "done" ELSE "init_canceler"
    /\ actionRan' = {}
    /\ deleteFailed' = {}
    /\ idx' = 0
    /\ UNCHANGED <<today, ledgerFile, cost_threshold, canceled_services, lastRecord, loadedFrom,
                   reportVars, apiVars, adapterVars, libVars, auxVars>>

\* AWSServiceCancelerBoto3.__init__: exits the process without credentials or
\* regions, else loads the ledger
InitCanceler ==
    /\ pc = "init_canceler"
    /\ \E credentialsOk \in BOOLEAN :
         IF credentialsOk
         THEN LET loaded == load_canceled_services(ledgerFile)
              IN  /\ pc' = IF loaded.raised THEN "crashed" ELSE "record"
                  /\ canceled_services' = loaded.value
                  /\ loadedFrom' = ledgerFile.state
                  /\ idx' = 1
         ELSE /\ pc' = "exited"
              /\ UNCHANGED <<canceled_services, loadedFrom, idx>>
    /\ UNCHANGED <<today, ledgerFile, cost_threshold, service_costs, services_exceeding,
                   actionRan, deleteFailed, lastRecord, reportVars, apiVars, adapterVars, libVars, auxVars>>

\* check_and_cancel_services, lines 387-391: one iteration of the loop that
\* records every exceeding service
RecordExceeding ==
    /\ pc = "record"
    /\ idx <= Len(services_exceeding)
    /\ \E writeOk \in BOOLEAN :
         LET item == services_exceeding[idx]
             d == RecordInto(canceled_services, item.service, item.cost, today)
         IN  /\ canceled_services' = d
             /\ ledgerFile' = save_canceled_services(ledgerFile, d, writeOk)
             /\ lastRecord' = RecordCall(item.service, item.cost, today, writeOk)
    /\ idx' = idx + 1
    /\ UNCHANGED <<today, pc, cost_threshold, service_costs, services_exceeding,
                   actionRan, deleteFailed, loadedFrom, reportVars, apiVars, adapterVars, libVars, auxVars>>

\* check_and_cancel_services, line 394: the call of cancel_targeted_services
CancelTargetedBegin ==
    /\ pc = "record"
    /\ idx > Len(services_exceeding)
    /\ pc' = "targeted"
    /\ idx' = 1
    /\ UNCHANGED <<today, ledgerFile, cost_threshold, service_costs, services_exceeding,
                   canceled_services, actionRan, deleteFailed, lastRecord, loadedFrom,
                   reportVars, apiVars, adapterVars, libVars, auxVars>>

\* what the two handlers can return, over every outcome of their AWS calls
OpenSearchResults ==
    {cancel_opensearch_serverless(outcome) : outcome \in [Regions -> RegionOutcomes]}
MarketplaceResults ==
    {cancel_marketplace_subscriptions(outcome) : outcome \in MarketplaceOutcomes}

\* the body of the loop of cancel_targeted_services for one table entry
TargetedBody(service_name, result) ==
    /\ actionRan' = actionRan \cup {service_name}
    /\ deleteFailed' = IF result.raised \/ result.failed
                       THEN deleteFailed \cup {service_name} ELSE deleteFailed
    /\ IF result.raised
       THEN UNCHANGED <<canceled_services, ledgerFile, lastRecord>>
       ELSE \E writeOk \in BOOLEAN :
              LET d == RecordInto(canceled_services, service_name, 0, today)
              IN  /\ canceled_services' = d
                  /\ ledgerFile' = save_canceled_services(ledgerFile, d, writeOk)
                  /\ lastRecord' = RecordCall(service_name, 0, today, writeOk)
    /\ idx' = idx + 1
    /\ UNCHANGED <<today, pc, cost_threshold, service_costs, services_exceeding, loadedFrom,
                   reportVars, apiVars, adapterVars, libVars, auxVars>>

\* cancel_targeted_services, first entry: cancel_opensearch_serverless
CancelOpenSearch ==
    /\ pc = "targeted"
    /\ idx = 1
    /\ \E result \in OpenSearchResults :
         TargetedBody(services_to_cancel[1], result)

\* cancel_targeted_services, second entry: cancel_marketplace_subscriptions
CancelMarketplace ==
    /\ pc = "targeted"
    /\ idx = 2
    /\ \E result \in MarketplaceResults :
         TargetedBody(services_to_cancel[2], result)

\* check_and_cancel_services, lines 396-401: return the cancellation status
CheckAndCancelEnd ==
    /\ pc = "targeted"
    /\ idx > Len(services_to_cancel)
    /\ pc' = "done"
    /\ UNCHANGED <<today, ledgerFile, cost_threshold, service_costs, services_exceeding,
                   canceled_services, idx, actionRan, deleteFailed, lastRecord, loadedFrom,
                   reportVars, apiVars, adapterVars, libVars, auxVars>>

\* a report generation that writes the status it loaded back to the ledger
GenerateHtmlReportRewrites ==
    /\ pc = "idle"
    /\ \E items \in ServiceCostLists :
         LET loaded == LoadServiceStatus(ledgerFile)
             status == ApplyStatusOverrides(loaded.value, service_status_override)
         IN  /\ service_costs' = items
             /\ loadedFrom' = ledgerFile.state
             /\ service_status' = status
             /\ report_rows' = RenderRows(ReportServiceCosts(items), status,
                                          BuildServiceRelationships(items))
             /\ ledgerFile' = FileOk(status)
             /\ pc' = IF loaded.raised THEN "crashed" ELSE "reported"
    /\ UNCHANGED <<today, cost_threshold, services_exceeding, canceled_services,
                   idx, actionRan, deleteFailed, lastRecord, apiVars, adapterVars, libVars, auxVars>>

\* generate_html_report: analysis, consolidation, ledger read, rendering
GenerateHtmlReport ==
    /\ pc = "idle"
    /\ \E items \in ServiceCostLists :
         LET loaded == LoadServiceStatus(ledgerFile)
             status == ApplyStatusOverrides(loaded.value, service_status_override)
         IN  /\ service_costs' = items
             /\ loadedFrom' = ledgerFile.state
             /\ service_status' = status
             /\ report_rows' = RenderRows(ReportServiceCosts(items), status,
                                          BuildServiceRelationships(items))
             /\ pc' = IF loaded.raised THEN "crashed" ELSE "reported"
    /\ UNCHANGED <<today, ledgerFile, cost_threshold, services_exceeding, canceled_services,
                   idx, actionRan, deleteFailed, lastRecord, apiVars, adapterVars, libVars, auxVars>>

\* the process ends; the next invocation starts with fresh objects
NextRun ==
    /\ pc \in {"done", "exited", "crashed", "reported"}
    /\ pc' = "idle"
    /\ service_costs' = << >>
    /\ services_exceeding' = << >>
    /\ canceled_services' = EmptyDict
    /\ idx' = 0
    /\ actionRan' = {}
    /\ deleteFailed' = {}
    /\ lastRecord' = NoRecord
    /\ loadedFrom' = "none"
    /\ service_status' = EmptyDict
    /\ report_rows' = << >>
    /\ UNCHANGED <<today, ledgerFile, cost_threshold, apiVars, adapterVars, libVars, auxVars>>

Next ==
    \/ Tick
    \/ CheckAndCancelBegin
    \/ InitCanceler
    \/ RecordExceeding
    \/ CancelTargetedBegin
    \/ CancelOpenSearch
    \/ CancelMarketplace
    \/ CheckAndCancelEnd
    \/ GenerateHtmlReport
    \/ NextRun

Spec == Init /\ [][Next]_vars

\* ----------------------------------------- the cancellation API on its own
InitApi ==
    /\ today = 1
    /\ ledgerFile = FileMissing
    /\ pc = "idle"
    /\ cost_threshold \in Thresholds
    /\ service_costs = << >>
    /\ services_exceeding = << >>
    /\ canceled_services = EmptyDict
    /\ idx = 0
    /\ actionRan = {}
    /\ deleteFailed = {}
    /\ lastRecord = NoRecord
    /\ loadedFrom = "none"
    /\ service_status = EmptyDict
    /\ report_rows = << >>
    /\ ApiIdle
    /\ AdapterIdle
    /\ LibIdle
    /\ AuxIdle

NextApi ==
    \/ CancelServiceDirectly
    \/ CancelServiceRoute
    \/ ApiReturn

SpecApi == InitApi /\ [][NextApi]_vars

\* ------------------------- the cost adapter next to a ledger left by the canceler
InitAdapter ==
    /\ today = 1
    /\ ledgerFile \in PriorLedgers
    /\ pc = "idle"
    /\ cost_threshold \in Thresholds
    /\ service_costs = << >>
    /\ services_exceeding = << >>
    /\ canceled_services = EmptyDict
    /\ idx = 0
    /\ actionRan = {}
    /\ deleteFailed = {}
    /\ lastRecord = NoRecord
    /\ loadedFrom = "none"
    /\ service_status = EmptyDict
    /\ report_rows = << >>
    /\ ApiIdle
    /\ AdapterIdle
    /\ LibIdle
    /\ AuxIdle

NextAdapter ==
    \/ GetServiceCosts
    \/ AdapterReturn

SpecAdapter == InitAdapter /\ [][NextAdapter]_vars

\* ------------------------------------------- the cost analysis on its own
ProgramIdle ==
    /\ today = 1
    /\ ledgerFile = FileMissing
    /\ pc = "idle"
    /\ cost_threshold \in Thresholds
    /\ service_costs = << >>
    /\ services_exceeding = << >>
    /\ canceled_services = EmptyDict
    /\ idx = 0
    /\ actionRan = {}
    /\ deleteFailed = {}
    /\ lastRecord = NoRecord
    /\ loadedFrom = "none"
    /\ service_status = EmptyDict
    /\ report_rows = << >>
    /\ ApiIdle
    /\ AdapterIdle

InitAnalysis ==
    /\ ProgramIdle
    /\ LibIdle
    /\ AuxIdle

NextAnalysis ==
    \/ CostDataChanges
    \/ CostDataExpires
    \/ AnalyzeCostsService
    \/ AnalyzeCostsPackage

SpecAnalysis == InitAnalysis /\ [][NextAnalysis]_vars

\* --------------------------------- the billing-source resolver on its own
InitResolver ==
    /\ ProgramIdle
    /\ LibIdle
    /\ AuxIdle

NextResolver ==
    \/ FindExactOpenSearchBillingSource
    \/ ResolverReturn

SpecResolver == InitResolver /\ [][NextResolver]_vars

\* --------------------------------------- the multi-region scan on its own
InitScan ==
    /\ ProgramIdle
    /\ LibIdle
    /\ AuxIdle

NextScan ==
    \/ ScanSubmit
    \/ \E r \in ScanRegions : WorkerStart(r)
    \/ \E r \in ScanRegions : WorkerList(r)
    \/ \E r \in ScanRegions : WorkerDescribe(r)
    \/ \E r \in ScanRegions : Collect(r)
    \/ ScanReturn
    \/ ScanDone

SpecScan == InitScan /\ [][NextScan]_vars

\* ------------------------------------------------------ the CLI on its own
InitCli ==
    /\ ProgramIdle
    /\ LibIdle
    /\ AuxIdle

NextCli ==
    \/ CliAdapterRun
    \/ CliAdapterMain
    \/ CliMain
    \/ CliExit

SpecCli == InitCli /\ [][NextCli]_vars

\* the cost queries alone
InitQuery ==
    /\ ProgramIdle
    /\ LibIdle
    /\ AuxIdle
NextQuery ==
    \/ AdapterGetServiceCosts
    \/ AdapterGetDailyCosts
    \/ MonitorGetServiceCosts
    \/ MonitorGetDailyCosts
    \/ QueryReturn
SpecQuery == InitQuery /\ [][NextQuery]_vars

\* the consolidation alone
InitConsolidation ==
    /\ ProgramIdle
    /\ LibIdle
    /\ AuxIdle
NextConsolidation ==
    \/ Consolidate
    \/ ConsolidateAgain
    \/ ConsolidationDone
SpecConsolidation == InitConsolidation /\ [][NextConsolidation]_vars

\* the service paths cache alone
InitCache ==
    /\ ProgramIdle
    /\ LibIdle
    /\ AuxIdle
NextCache ==
    \/ ControllerInit
    \/ UpdateServicePaths
    \/ SaveInterrupted
    \/ ControllerExit
    \/ TimePasses
SpecCache == InitCache /\ [][NextCache]_vars

\* the cost report service alone
InitReportGen ==
    /\ ProgramIdle
    /\ LibIdle
    /\ AuxIdle
NextReportGen ==
    \/ GenerateCostReport
    \/ CostReportDone
SpecReportGen == InitReportGen /\ [][NextReportGen]_vars

\* the delete-and-wait loops alone; the canceler keeps running (weak
\* fairness of its own steps), AWS owes nothing
InitWait ==
    /\ ProgramIdle
    /\ LibIdle
    /\ AuxIdle
NextWait ==
    \/ CancelRunBegin
    \/ DeleteCall
    \/ PollStatus
    \/ Sleep
    \/ PollFails
    \/ DeletionCompletes
    \/ DeletionFails
    \/ CancelRunEnd
SpecWait == InitWait /\ [][NextWait]_vars
SpecWaitLive ==
    /\ SpecWait
    /\ WF_vars(DeleteCall)
    /\ WF_vars(PollStatus)
    /\ WF_vars(Sleep)
    /\ WF_vars(CancelRunEnd)

\* the detection of invisible resources alone
InitDetect ==
    /\ ProgramIdle
    /\ LibIdle
    /\ AuxIdle
NextDetect ==
    \/ DetectInvisibleResources
    \/ DetectReturn
SpecDetect == InitDetect /\ [][NextDetect]_vars

\* ------------------------------------------------------------- properties
\* the ledger holds a Canceled record for service s
Held(s, file) ==
    /\ file.state = "ok"
    /\ \E m \in file.members : m[1] = s /\ m[2].status = "Canceled"

\* the ledger members keyed by s
EntryOf(s, file) == IF file.state = "ok" THEN {m \in file.members : m[1] = s} ELSE {}

\* C1: a step in which the cancellation action of a service fails (the
\* handler raises or a delete it attempts fails) writes no ledger record for
\* that service.
C1_NoRecordOnFailure ==
    [][\A s \in ServiceNames :
          (s \in deleteFailed' /\ s \notin deleteFailed)
              => EntryOf(s, ledgerFile') = EntryOf(s, ledgerFile)]_vars

\* C2: a ledger entry becomes Canceled only in a step by whose end the
\* cancellation action of that same service has run and has not failed.
C2_RecordOnlyAfterSuccess ==
    [][\A s \in ServiceNames :
          (~Held(s, ledgerFile) /\ Held(s, ledgerFile'))
              => (s \in actionRan' /\ s \notin deleteFailed')]_vars

\* C3: every service whose cancellation action ran in this run has an
\* analysed line item whose cost exceeds the threshold.
C3_OnlyExceedingCancelled ==
    \A s \in actionRan :
        \E i \in 1..Len(service_costs) :
            service_costs[i].service = s /\ service_costs[i].cost > cost_threshold

\* reading the ledger yields the latest recorded call under its exact name
RoundTripHolds ==
    LET d == load_canceled_services(ledgerFile).value
    IN  /\ lastRecord.service_name \in DOMAIN d
        /\ d[lastRecord.service_name].status = "Canceled"
        /\ d[lastRecord.service_name].canceled_on = strftime(lastRecord.day)
        /\ d[lastRecord.service_name].cost_at_cancellation = lastRecord.cost

C8_CorruptLedgerLoadsEmpty ==
    loadedFrom = "corrupt" =>
        /\ pc # "crashed"
        /\ (pc = "record" /\ idx = 1) => canceled_services = EmptyDict
        /\ pc = "reported" => service_status = EmptyDict

C8_Witness ==
    /\ loadedFrom = "corrupt"
    /\ pc = "reported"
    /\ ledgerFile.state = "corrupt"
    /\ report_rows # << >>
    /\ \A i \in 1..Len(report_rows) : report_rows[i].status.badge = "Active"

\* C9: the ledger file changes only in steps of the canceler's
\* record_service_cancellation; report generation leaves it as it was.
C9_OnlyCancelerWritesLedger ==
    [][/\ (ledgerFile' # ledgerFile) => pc \in {"record", "targeted"}
       /\ (pc = "idle" /\ pc' \in {"reported", "crashed"}) => ledgerFile' = ledgerFile]_vars

C9_Witness ==
    /\ pc = "reported"
    /\ loadedFrom = "ok"
    /\ service_status # EmptyDict
    /\ \E i \in 1..Len(report_rows) : report_rows[i].status.badge = "Canceled"

\* C4: for every service name without a registered handler, cancel_service
\* does not raise and returns success = true with details.action equal to
\* "not_implemented".
C4_UnregisteredIsNotImplemented ==
    (api_input.via # "none" /\ api_input.service_name \in ApiServiceNames \ RegisteredNames) =>
        /\ ~api_result.raised
        /\ api_result.success = TRUE
        /\ api_result.details.action = "not_implemented"
        /\ api_result.error_code = Absent

C4_Witness ==
    /\ api_input.via = "direct"
    /\ api_input.service_name = "Unsupported Service"
    /\ api_input.service_id # NoId
    /\ api_result.success = TRUE
    /\ api_result.details.action = "not_implemented"
    /\ api_calls = {}

\* C5: for every registered handler, when the delete or terminate call fails
\* with a ClientError, cancel_service does not raise and returns
\* success = false with error_code equal to the AWS error code and a message.
C5_ClientErrorSurfaced ==
    (api_input.service_name \in RegisteredNames /\ api_delete_error \in ClientErrorCodes) =>
        /\ ~api_result.raised
        /\ api_result.success = FALSE
        /\ api_result.error_code = api_delete_error
        /\ api_result.message # Absent

\* a status that says the service was cancelled
IsCanceledStatus(status) == status \in {"Canceled", "Cancelled"}

\* statuses that the ledger does not decide
NonLedgerStatuses == {"Required", "Pay-As-You-Go"}

\* C10: a service entry has status Canceled only if the ledger holds a
\* Canceled record under its exact name; an entry whose name is absent from
\* the ledger has status Active (or one of the statuses the ledger does not
\* decide).
C10_StatusFollowsLedger ==
    \A i \in 1..Len(adapter_services) :
        LET e == adapter_services[i]
        IN  /\ IsCanceledStatus(e.status) => Held(e.name, ledgerFile)
            /\ EntryOf(e.name, ledgerFile) = {} =>
                   e.status \in {"Active"} \cup NonLedgerStatuses

\* ----------------------------------------------- properties: cost analysis
Range(seq) == {seq[i] : i \in 1..Len(seq)}
Count(seq, e) == Cardinality({i \in 1..Len(seq) : seq[i] = e})
Returned(k) == analyze_results[k].raised = NoError

\* C11: every analyze_costs call, on the domain service or through the
\* package-level function, returns exactly the entries of get_service_costs
\* whose cost is strictly greater than the threshold: none missing, none extra.
C11_AnalyzeReturnsExactlyAbove ==
    \A k \in DOMAIN analyze_results :
        /\ Returned(k)
        /\ LET services == cost_data_port_get_service_costs(ce_response)
               result == analyze_results[k].value
           IN  \A e \in Range(services) \cup Range(result) :
                   Count(result, e) = IF e.cost > k[2] THEN Count(services, e) ELSE 0

SortedByCostDescending(seq) ==
    \A i, j \in 1..Len(seq) : i < j => seq[i].cost >= seq[j].cost

ScenarioGroups ==
    <<[name |-> AWS_LAMBDA, cost |-> 1050], [name |-> S3, cost |-> 525],
      [name |-> AWS_SKILL_BUILDER, cost |-> 2900]>>

C13_ThresholdMonotonic ==
    \A kx, ky \in DOMAIN analyze_results :
        (kx[1] = ky[1] /\ kx[2] < ky[2] /\ Returned(kx) /\ Returned(ky)) =>
            \A e \in Range(analyze_results[ky].value) :
                Count(analyze_results[ky].value, e) <= Count(analyze_results[kx].value, e)

C13_Witness ==
    /\ <<"service", 1000>> \in DOMAIN analyze_results
    /\ <<"service", 2000>> \in DOMAIN analyze_results
    /\ Len(analyze_results[<<"service", 2000>>].value) > 0
    /\ Len(analyze_results[<<"service", 1000>>].value)
         > Len(analyze_results[<<"service", 2000>>].value)

\* ------------------------------------------------- properties: the resolver
ResolverAnswered == resolver_input.kind \in {"ok", "no_results_key"}

KnownPrefix(usage_type) == Len(usage_type) > 1 /\ usage_type[1] \in RegionCodes

\* the OpenSearch groups of the answer that carry a cost and a known region prefix
BilledGroups ==
    SelectSeq(resolver_input.groups,
              LAMBDA g : g.service = OPENSEARCH /\ g.cost > CENT /\ KnownPrefix(g.usage_type))
BilledRegions == {region_map(g.usage_type[1]) : g \in Range(BilledGroups)}

RECURSIVE RegionCost(_, _)
RegionCost(groups, region) ==
    IF groups = << >> THEN 0
    ELSE RegionCost(Tail(groups), region)
           + (IF region_map(Head(groups).usage_type[1]) = region THEN Head(groups).cost ELSE 0)

\* C14: when the service has cost groups in several regions, the resolver
\* returns the region responsible for the largest share of the cost.
C14_LargestShareRegion ==
    (ResolverAnswered /\ Cardinality(BilledRegions) >= 2) =>
        \A r \in BilledRegions :
            RegionCost(BilledGroups, resolver_result.value.region) >= RegionCost(BilledGroups, r)

ConsideredGroups ==
    SelectSeq(resolver_input.groups, LAMBDA g : g.service = OPENSEARCH /\ g.cost > CENT)

\* C15: a usage-type string whose first '-'-separated part is in the
\* region-code table resolves to that table's region; strings with an
\* unrecognised prefix, or with no '-', resolve to the default region us-east-1.
C15_RegionFromPrefix ==
    ResolverAnswered =>
        /\ (Len(ConsideredGroups) = 1 /\ KnownPrefix(ConsideredGroups[1].usage_type))
             => resolver_result.value.region = region_map(ConsideredGroups[1].usage_type[1])
        /\ (\A g \in Range(ConsideredGroups) : ~KnownPrefix(g.usage_type))
             => resolver_result.value.region = "us-east-1"

C15_Witness ==
    /\ ResolverAnswered
    /\ Len(ConsideredGroups) = 1
    /\ KnownPrefix(ConsideredGroups[1].usage_type)
    /\ resolver_result.value.region = "eu-west-1"

ServerlessParts == {"ServerlessIndexingOCU", "ServerlessOCU", "ServerlessUsage"}

\* C16: the resolver reports a serverless billing source if and only if a
\* usage-type string with cost above 0.01 contains the case-sensitive
\* substring "Serverless"; otherwise it reports a standard/provisioned resource.
C16_ServerlessIffSubstring ==
    ResolverAnswered =>
        LET serverless == \E g \in Range(ConsideredGroups) :
                              \E i \in 1..Len(g.usage_type) : g.usage_type[i] \in ServerlessParts
        IN  /\ serverless => resolver_result.value.kind = "serverless"
            /\ ~serverless => resolver_result.value.kind \in {"domain", "domains"}

C16_Witness ==
    /\ ResolverAnswered
    /\ resolver_result.value.kind = "serverless"
    /\ resolver_result.value.resource_type = "opensearch-serverless"

\* C17: the resolver never raises and always produces a result: when the cost
\* data is absent or malformed, or the upstream query fails, it returns the
\* default result (region us-east-1, not serverless).
C17_NeverRaisesReturnsDefault ==
    resolver_input # NoResolverInput =>
        /\ ~resolver_result.raised
        /\ (\/ resolver_input.kind \in {"query_fails", "empty_results", "malformed_group",
                                        "no_results_key"}
            \/ ConsideredGroups = << >>)
             => /\ resolver_result.value.region = "us-east-1"
                /\ resolver_result.value.kind \in {"domain", "domains"}

\* ------------------------------------------ properties: the multi-region scan
Found(r) == IF region_answers[r].fails THEN {} ELSE Range(region_answers[r].names)

Entries(name, r) ==
    {i \in 1..Len(scan_result.value) :
        scan_result.value[i].DomainName = name /\ scan_result.value[i].Region = r}

\* C18: when the enumeration of one region fails, the scan does not raise and
\* still returns all resources found in every other region.
C18_FailedRegionIsolated ==
    (scan_pc = "returned" /\ \E r \in ScanRegions : region_answers[r].fails) =>
        /\ ~scan_result.raised
        /\ \A r \in ScanRegions : \A name \in Found(r) : Entries(name, r) # {}

C18_Witness ==
    /\ scan_pc = "returned"
    /\ \E r \in ScanRegions : region_answers[r].fails
    /\ \E r \in ScanRegions : Cardinality(Found(r)) = 2
    /\ Len(scan_result.value) = 2

\* C19: whatever the interleaving and completion order of the per-region
\* workers, the merged result is the same set: each domain found in a region
\* appears exactly once, tagged with that region, and nothing else appears.
C19_MergedSetIndependentOfOrder ==
    scan_pc = "returned" =>
        /\ \A r \in ScanRegions : \A name \in Found(r) : Cardinality(Entries(name, r)) = 1
        /\ \A i \in 1..Len(scan_result.value) :
               /\ scan_result.value[i].Region \in ScanRegions
               /\ scan_result.value[i].DomainName \in Found(scan_result.value[i].Region)

\* both regions have domains and the second region's future was handled first
C19_Witness ==
    /\ scan_pc = "returned"
    /\ \A r \in ScanRegions : Found(r) # {}
    /\ scan_result.value[1].Region = RegionNames[2]
    /\ scan_result.value[Len(scan_result.value)].Region = RegionNames[1]

\* ------------------------------------------------------ properties: the CLI
\* C20: the CLI returns exit code 0 whenever the report or analyze command
\* completes successfully, and exit code 1 when an exception was caught.
C20_ExitCodes ==
    cli_input.command \in {"report", "analyze"} =>
        /\ cli_result.completed => cli_result.exit_code = 0
        /\ cli_result.caught => cli_result.exit_code = 1

\* ------------------------------------------------- cost query properties
\* C21: when the upstream Cost Explorer call fails, every cost query returns
\* an empty result set without raising.
C21_FailedQueryReturnsEmpty ==
    (query_input # NoQueryInput /\ query_input.apiFails)
        => (~query_result.raised /\ query_result.rows = << >>)

\* C22: the list returned by get_service_costs holds at most one entry per
\* normalized service display name.
C22_OneEntryPerDisplayName ==
    adapter_called =>
        \A i, j \in 1..Len(adapter_services) :
            CleanServiceName(adapter_services[i].name) = CleanServiceName(adapter_services[j].name)
                => i = j

\* ------------------------------------------------ consolidation properties
\* the name a line item is shown under: the parent of a child SKU, else its
\* display name
MapsTo(item) ==
    LET name == DisplayName(item.service, item.cost)
    IN  IF name \in DOMAIN service_consolidation THEN service_consolidation[name] ELSE name

RECURSIVE SumOfLines(_, _)
SumOfLines(items, name) ==
    IF items = << >> THEN 0
    ELSE SumOfLines(Tail(items), name)
            + (IF MapsTo(Head(items)) = name THEN Head(items).cost ELSE 0)

OnlyParentNames(items) ==
    \A i \in 1..Len(items) : items[i].service \notin DOMAIN service_consolidation

C25_CostIsSumOfLines ==
    consolidation_pc # "idle" =>
        \A i \in 1..Len(service_cost_map) :
            service_cost_map[i].cost = SumOfLines(cost_data, service_cost_map[i].name)

\* ------------------------------------------- service paths cache properties
\* C24: load_service_paths_cache returns the cached mapping when the cache
\* file exists and is less than 24 hours old, the built-in default otherwise.
C24_FreshCacheReturned ==
    (cache_pc = "loaded" /\ cache_seen.state # "corrupt") =>
        service_paths = IF cache_seen.state = "ok" /\ cache_seen.age < DAY_SECONDS
                        THEN cache_seen.content
                        ELSE default_paths

\* ------------------------------------------------ cost at cancellation
\* C26: after check_and_cancel_services completes, the ledger record of each
\* cancelled service holds as cost_at_cancellation a cost that service had in
\* the analysis that triggered its cancellation.
C26_CostAtCancellationFromAnalysis ==
    pc = "done" =>
        \A i \in 1..Len(services_exceeding) :
            LET service_name == services_exceeding[i].service
            IN  /\ service_name \in DOMAIN canceled_services
                /\ \E j \in 1..Len(services_exceeding) :
                      /\ services_exceeding[j].service = service_name
                      /\ canceled_services[service_name].cost_at_cancellation
                            = services_exceeding[j].cost

\* ------------------------------------------------- cost report properties
\* C27: the report of generate_cost_report(days_back = N) is rendered from
\* the service costs, daily costs and total cost obtained for the N-day
\* window and handed to the report generator through its add_* methods.
C27_RenderedFromHandedData ==
    report_days_back # 0 => report_rendered = report_handed

\* ------------------------------------------- cancellation without an id
DeleteOps ==
    {"delete_domain", "delete_collection", "delete_cluster", "delete_function",
     "terminate_instances", "delete_db_instance", "delete_objects", "delete_bucket"}
ListOps ==
    {"list_domain_names", "list_collections", "describe_clusters", "list_functions",
     "describe_instances", "describe_db_instances", "list_buckets"}

\* C28: cancel_service called without a resource id issues no delete or
\* terminate call for any service; the only AWS call it makes lists the
\* existing resources.
C28_NoIdOnlyLists ==
    (api_input.via # "none" /\ api_input.service_id = NoId) =>
        /\ api_calls \cap DeleteOps = {}
        /\ api_calls \subseteq ListOps

\* a call without an id for a registered service that listed and succeeded
C28_Witness ==
    /\ api_input.via = "direct"
    /\ api_input.service_id = NoId
    /\ api_input.service_name = "Amazon EC2"
    /\ api_calls = {"describe_instances"}
    /\ api_result.success = TRUE
    /\ api_result.details.action = "list_only"

\* ------------------------------------------------- termination of the waits
\* C29: every cancellation run terminates: once a delete call was issued and
\* the run waits for the deletion, the wait loop is eventually left.
C29_WaitLoopExits == (wait_pc = "poll") ~> (wait_pc \notin {"poll", "sleep"})

\* -------------------------------------------- invisible resource properties
\* C30: detect_invisible_resources does not raise and returns a non-empty list
\* of actions for every outcome of the OpenSearch investigation, the one
\* without OpenSearch charges included.
C30_DetectNeverRaisesNonEmpty ==
    detect_called => (detect_result.raised = "none" /\ detect_result.actions # << >>)

====
